---- MODULE Spec2Model ----
(***************************************************************************)
(* Model of the netrunner network orchestrator (package local): the        *)
(* provisioning workflows of local/blockchain.go that run under the        *)
(* network lock against a platform chain, and utils.VMID.                  *)
(***************************************************************************)
EXTENDS Integers, Sequences, FiniteSets, TLC

\* ------------------------------------------------------------------------
\* Bounds of the model
\* ------------------------------------------------------------------------
\* longest free prefix of a VM name drawn for VMID
MaxPrefix == 2
\* node names outside the initial registry that a request can mention
NumSpare == 1

\* ------------------------------------------------------------------------
\* Program constants
\* ------------------------------------------------------------------------
\* utils.VMID: the length of an ids.ID and the longest accepted VM name
IDLen == 32
\* getNode: minAPIPortNumber := uint16(MaxPort)
MaxPort == 65535

\* a nil string or byte slice
Nil == "nil"
\* no node; a nil subnet ID; a subnet ID that ids.FromString rejects
NoNode == 0
\* the value of the lock when no caller holds it
Free == "free"
NoID == 0
BadID == -1
Callers == {"c1", "c2"}
\* node names are numbered so that their order is the order of sort.Strings
InitNames == {1, 2}
Names == 1..(2 + NumSpare)

VARIABLES
    nodes,        \* ln.nodes: node name -> localNode record
    nextNodeID,   \* next fresh staking identity
    nextID,       \* next transaction ID of the platform chain
    primaryCur,   \* node IDs that are current primary-network validators
    primaryPend,  \* node IDs added to the primary network, not yet validating
    subnets,      \* IDs of the create-subnet transactions accepted
    subCur,       \* <<subnetID, nodeID>>: current subnet validators
    subPend,      \* <<subnetID, nodeID>>: added, not yet validating
    chains,       \* create-chain transactions the platform chain has received
    elastic,      \* ln.subnetID2ElasticSubnetID
    txlog,        \* every transaction handed to the wallet for issuance
    lock,         \* ln.lock: Free, or the caller holding it
    pc,           \* per caller: position in its workflow
    req,          \* per caller: the request (entry point and specs)
    loc,          \* per caller: the workflow's local variables
    ret,          \* per caller: the returned value
    stopped,      \* ln.onStopCh is closed
    ctxDone,      \* per caller: the caller's context is done
    logs,         \* <<node name, blockchainID>>: chain log files present
    vmIn,         \* VM names handed to utils.VMID
    vmOut,        \* results of utils.VMID
    valIn,        \* a validator spec, the clock and the primary end time
    valOut,       \* the start and end time issued for it
    client,       \* the RPC client: closed channel, closeOnce, conn, Close calls
    stream,       \* one StreamStatus subscription of the client
    peers,        \* per node: an AttachPeer call, the peer and its connection
    ctl           \* the control service: its state and the calls it answered

vars == <<nodes, nextNodeID, nextID, primaryCur, primaryPend, subnets, subCur,
          subPend, chains, elastic, txlog, lock, pc, req, loc, ret, stopped, ctxDone, logs,
          vmIn, vmOut, valIn, valOut, client, stream, peers, ctl>>

chainVars == <<nextID, primaryCur, primaryPend, subnets, subCur, subPend, chains,
               txlog>>
callVars == <<lock, pc, req, loc, ret>>
auxVars == <<client, stream, peers, ctl>>
vmVars == <<vmIn, vmOut, valIn, valOut, auxVars>>
envVars == <<stopped, ctxDone, logs, elastic>>

\* ------------------------------------------------------------------------
\* Helpers
\* ------------------------------------------------------------------------
\* no client, subscription, peer or control service is part of the run
NoAux == client = <<>> /\ stream = <<>> /\ peers = <<>> /\ ctl = <<>>

Range(s) == {s[i] : i \in DOMAIN s}

RECURSIVE SetToSortedSeq(_)
\* maps.Keys followed by sort.Strings
SetToSortedSeq(S) ==
    IF S = {} THEN <<>>
    ELSE LET m == CHOOSE x \in S : \A y \in S : x <= y
         IN <<m>> \o SetToSortedSeq(S \ {m})

RECURSIVE Rep(_, _)
Rep(b, k) == IF k = 0 THEN <<>> ELSE <<b>> \o Rep(b, k - 1)

\* ------------------------------------------------------------------------
\* utils.VMID
\* ------------------------------------------------------------------------
\* ids.Empty
EmptyID == [i \in 1..IDLen |-> 0]

\* a length check that is off by one
VMID_LenOffByOne(vmName) ==
    IF Len(vmName) >= IDLen
    THEN [id |-> EmptyID, err |-> TRUE]
    ELSE [id |-> [i \in 1..IDLen |-> IF i <= Len(vmName) THEN vmName[i] ELSE 0],
          err |-> FALSE]

\* b := make([]byte, 32); copy(b, []byte(vmName)); ids.ToID(b)
VMID(vmName) ==
    IF Len(vmName) > IDLen
    THEN [id |-> EmptyID, err |-> TRUE]
    ELSE [id |-> [i \in 1..IDLen |-> IF i <= Len(vmName) THEN vmName[i] ELSE 0],
          err |-> FALSE]

\* ------------------------------------------------------------------------
\* The node registry
\* ------------------------------------------------------------------------
EmptyMap == [x \in {} |-> Nil]

\* the record of a node: identity, ports, paused flag, the tracked-subnets
\* flag of its config, the config file maps, and what its process was
\* started with (procTrack) and how often it was restarted (gen)
NodeRec(id, port) ==
    [nodeID |-> id, apiPort |-> port, p2pPort |-> port + 1, paused |-> FALSE,
     track |-> <<>>, procTrack |-> <<>>, gen |-> 0,
     chainCfg |-> EmptyMap, upgCfg |-> EmptyMap, subnetCfg |-> EmptyMap]

BasePort == 9650

\* a port pair that no node of the registry holds
FreePort(ns) ==
    CHOOSE p \in {BasePort + 2 * k : k \in 0..Cardinality(Names)} :
        /\ \A n \in DOMAIN ns : ns[n].apiPort # p
        /\ \A q \in {BasePort + 2 * k : k \in 0..Cardinality(Names)} :
              (\A n \in DOMAIN ns : ns[n].apiPort # q) => p <= q

\* ln.addNode(node.Config{Name: name}): a new record with a fresh identity
AddNodeTo(ns, name, id) == (name :> NodeRec(id, FreePort(ns))) @@ ns

\* get node with minimum port number
GetNode ==
    LET cands == {n \in DOMAIN nodes :
                     ~nodes[n].paused /\ nodes[n].apiPort < MaxPort}
    IN IF cands = {} THEN NoNode
       ELSE CHOOSE n \in cands :
                \A m \in cands : nodes[n].apiPort <= nodes[m].apiPort

\* ------------------------------------------------------------------------
\* Calls: results, locals, lock
\* ------------------------------------------------------------------------
OK(ids) == [ok |-> TRUE, err |-> Nil, ids |-> ids]
Err(e) == [ok |-> FALSE, err |-> e, ids |-> <<>>]
NoRet == [ok |-> FALSE, err |-> "pending", ids |-> <<>>]

NoReq == [op |-> Nil, subnetSpecs |-> <<>>, chainSpecs |-> <<>>,
          valSpecs |-> <<>>, rmSpecs |-> <<>>, elasticSpecs |-> <<>>,
          name |-> NoNode]

\* the arguments of restartNodes; given: which of the three spec lists are
\* not nil
NoRestart == [subnetIDs |-> <<>>, subnetSpecs |-> <<>>, valSpecs |-> <<>>,
              rmSpecs |-> <<>>, given |-> {}, cfgNodes |-> {}]

Loc0 == [uri |-> NoNode, specs |-> <<>>, chainSpecs |-> <<>>, subnetIDs |-> <<>>,
         snap |-> {}, todo |-> {}, i |-> 0, j |-> 0, names |-> <<>>,
         txs |-> <<>>, toRestart |-> {}, rs |-> NoRestart, observed |-> {},
         waited |-> FALSE, restarted |-> <<>>, nodes0 |-> EmptyMap,
         calls |-> {}, primary |-> {}]

\* return: set the result; the deferred ln.lock.Unlock() runs
Finish(c, r) ==
    /\ pc' = [pc EXCEPT ![c] = "done"]
    /\ ret' = [ret EXCEPT ![c] = r]
    /\ lock' = Free

Goto(c, l) ==
    /\ pc' = [pc EXCEPT ![c] = l]
    /\ UNCHANGED <<ret, lock>>

\* an entry point that does not wait for the lock
Lock_NoWait(c) ==
    /\ pc[c] = "lock"
    /\ lock' = c
    /\ pc' = [pc EXCEPT ![c] = "begin"]
    /\ loc' = [loc EXCEPT ![c] = [Loc0 EXCEPT !.nodes0 = nodes]]
    /\ UNCHANGED <<nodes, nextNodeID, chainVars, req, ret, envVars, vmVars>>

\* ln.lock.Lock() at the head of every workflow entry point
Lock(c) ==
    /\ pc[c] = "lock"
    /\ lock = Free
    /\ lock' = c
    /\ pc' = [pc EXCEPT ![c] = "begin"]
    /\ loc' = [loc EXCEPT ![c] = [Loc0 EXCEPT !.nodes0 = nodes]]
    /\ UNCHANGED <<nodes, nextNodeID, chainVars, req, ret, envVars, vmVars>>

\* a transaction handed to the wallet
Tx(c, kind, node, subnet, id, ok) ==
    [c |-> c, kind |-> kind, node |-> node, subnet |-> subnet, id |-> id,
     ok |-> ok, waited |-> loc[c].waited]

\* ------------------------------------------------------------------------
\* Requests
\* ------------------------------------------------------------------------
SubnetSpec(parts, cfg) == [participants |-> parts, cfg |-> cfg]

CreateSubnets(c, specs) ==
    /\ pc[c] = "idle"
    /\ pc' = [pc EXCEPT ![c] = "lock"]
    /\ req' = [req EXCEPT ![c] = [NoReq EXCEPT !.op = "CreateSubnets",
                                               !.subnetSpecs = specs]]
    /\ UNCHANGED <<nodes, nextNodeID, chainVars, lock, loc, ret, envVars, vmVars>>

\* ------------------------------------------------------------------------
\* installSubnets / installCustomChains: the shared steps
\* ------------------------------------------------------------------------
\* if no participants are given, assume all nodes should be participants
FillParticipants(specs) ==
    [i \in DOMAIN specs |->
        IF Len(specs[i].participants) = 0
        THEN [specs[i] EXCEPT !.participants = SetToSortedSeq(DOMAIN nodes)]
        ELSE specs[i]]

RECURSIVE Flatten(_)
Flatten(specs) ==
    IF specs = <<>> THEN <<>>
    ELSE Head(specs).participants \o Flatten(Tail(specs))

\* the node names the workflow makes sure are in the registry
SpawnList(c) ==
    IF req[c].op = "AddPermissionlessValidators"
    THEN [k \in DOMAIN req[c].valSpecs |-> req[c].valSpecs[k].nodeName]
    ELSE Flatten(loc[c].specs)

\* the first of them, in order, that is not in the registry
FirstMissing(f) ==
    LET idx == {k \in DOMAIN f : f[k] \notin DOMAIN nodes}
    IN IF idx = {} THEN NoNode
       ELSE f[CHOOSE k \in idx : \A m \in idx : k <= m]

\* installSubnets up to the participant fill: getClientURI, newWallet
InstallSubnetsBegin(c) ==
    /\ pc[c] = "begin"
    /\ req[c].op = "CreateSubnets"
    /\ IF GetNode = NoNode
       THEN /\ Finish(c, Err("nil node"))
            /\ UNCHANGED loc
       ELSE \E ok \in BOOLEAN :
              IF ok
              THEN /\ loc' = [loc EXCEPT ![c].uri = GetNode,
                                         ![c].specs = FillParticipants(req[c].subnetSpecs)]
                   /\ Goto(c, "spawn")
              ELSE /\ Finish(c, Err("wallet"))
                   /\ UNCHANGED loc
    /\ UNCHANGED <<nodes, nextNodeID, chainVars, req, envVars, vmVars>>

\* create new nodes: ln.addNode for each participant not in the registry
SpawnParticipants(c) ==
    /\ pc[c] = "spawn"
    /\ LET m == FirstMissing(SpawnList(c))
       IN IF m = NoNode
          THEN /\ Goto(c, "healthy")
               /\ UNCHANGED <<nodes, nextNodeID>>
          ELSE \E ok \in BOOLEAN :
                 IF ok
                 THEN /\ nodes' = AddNodeTo(nodes, m, nextNodeID)
                      /\ nextNodeID' = nextNodeID + 1
                      /\ Goto(c, "spawn")
                 ELSE /\ Finish(c, Err("addNode"))
                      /\ UNCHANGED <<nodes, nextNodeID>>
    /\ UNCHANGED <<chainVars, req, loc, envVars, vmVars>>

\* ln.healthy(ctx)
Healthy(c) ==
    /\ pc[c] = "healthy"
    /\ \E ok \in BOOLEAN :
         IF ok THEN Goto(c, "addprim") ELSE Finish(c, Err("unhealthy"))
    /\ UNCHANGED <<nodes, nextNodeID, chainVars, req, loc, envVars, vmVars>>

AfterAddPrimary(op) ==
    IF op = "AddPermissionlessValidators" THEN "waitprim" ELSE "createsub"

\* addPrimaryValidators: the query and the set of nodes that are not
\* current validators
AddPrimaryValidators(c) ==
    /\ pc[c] = "addprim"
    /\ \E ok \in BOOLEAN :
         IF ok
         THEN LET todo == {n \in DOMAIN nodes : nodes[n].nodeID \notin primaryCur}
              IN /\ loc' = [loc EXCEPT ![c].snap = primaryCur, ![c].todo = todo]
                 /\ Goto(c, IF todo = {} THEN AfterAddPrimary(req[c].op)
                            ELSE "addprim_tx")
         ELSE /\ Finish(c, Err("query"))
              /\ UNCHANGED loc
    /\ UNCHANGED <<nodes, nextNodeID, chainVars, req, envVars, vmVars>>

\* addPrimaryValidators: IssueAddPermissionlessValidatorTx for one node of
\* the loop over ln.nodes (a map: any order)
AddPrimaryValidatorTx(c) ==
    /\ pc[c] = "addprim_tx"
    /\ \E n \in loc[c].todo, ok \in BOOLEAN :
         LET id == nodes[n].nodeID
         IN /\ txlog' = Append(txlog, Tx(c, "addPrimary", id, 0, nextID, ok))
            /\ IF ok
               THEN /\ nextID' = nextID + 1
                    /\ primaryPend' = primaryPend \cup ({id} \ primaryCur)
                    /\ loc' = [loc EXCEPT ![c].todo = @ \ {n}]
                    /\ Goto(c, IF loc[c].todo = {n} THEN AfterAddPrimary(req[c].op)
                               ELSE "addprim_tx")
               ELSE /\ Finish(c, Err("tx"))
                    /\ UNCHANGED <<nextID, primaryPend, loc>>
    /\ UNCHANGED <<nodes, nextNodeID, primaryCur, subnets, subCur, subPend, chains,
                   req, envVars, vmVars>>

\* createSubnets: IssueCreateSubnetTx, once per spec
CreateSubnetTx(c) ==
    /\ pc[c] = "createsub"
    /\ IF Len(loc[c].subnetIDs) < Len(loc[c].specs)
       THEN \E ok \in BOOLEAN :
              /\ txlog' = Append(txlog, Tx(c, "createSubnet", 0, nextID, nextID, ok))
              /\ IF ok
                 THEN /\ nextID' = nextID + 1
                      /\ subnets' = subnets \cup {nextID}
                      /\ loc' = [loc EXCEPT ![c].subnetIDs = Append(@, nextID)]
                      /\ Goto(c, "createsub")
                 ELSE /\ Finish(c, Err("tx"))
                      /\ UNCHANGED <<nextID, subnets, loc>>
       ELSE /\ Goto(c, "subcfg")
            /\ UNCHANGED <<nextID, subnets, loc, txlog>>
    /\ UNCHANGED <<nodes, nextNodeID, primaryCur, primaryPend, subCur, subPend,
                   chains, req, envVars, vmVars>>

RECURSIVE CfgWrites(_, _, _)
\* the (subnetID, node name, content) writes of setSubnetConfigFiles, in order
CfgWrites(ids, specs, i) ==
    IF i > Len(ids) THEN <<>>
    ELSE (IF specs[i].cfg = Nil THEN <<>>
          ELSE [k \in DOMAIN specs[i].participants |->
                   <<ids[i], specs[i].participants[k], specs[i].cfg>>])
         \o CfgWrites(ids, specs, i + 1)

RECURSIVE ApplySubnetCfg(_, _)
ApplySubnetCfg(ns, ws) ==
    IF ws = <<>> THEN [nodes |-> ns, err |-> FALSE]
    ELSE LET w == Head(ws)
         IN IF w[2] \notin DOMAIN ns
            THEN [nodes |-> ns, err |-> TRUE]
            ELSE ApplySubnetCfg(
                   [ns EXCEPT ![w[2]].subnetCfg = (w[1] :> w[3]) @@ @], Tail(ws))

\* a fill-back whose subnet index never advances
FillBack_SameID(chainSpecs, ids) ==
    [k \in DOMAIN chainSpecs |->
        IF chainSpecs[k].subnetID = NoID
        THEN [chainSpecs[k] EXCEPT !.subnetID = ids[1]]
        ELSE chainSpecs[k]]

RECURSIVE FillBack(_, _)
\* assign created subnets to blockchain requests with undefined subnet id
FillBack(chainSpecs, ids) ==
    IF chainSpecs = <<>> THEN <<>>
    ELSE IF Head(chainSpecs).subnetID = NoID
         THEN <<[Head(chainSpecs) EXCEPT !.subnetID = Head(ids)]>>
              \o FillBack(Tail(chainSpecs), Tail(ids))
         ELSE <<Head(chainSpecs)>> \o FillBack(Tail(chainSpecs), ids)

\* ln.setSubnetConfigFiles, and in installCustomChains the fill-back of the
\* created subnet IDs that follows it
SetSubnetConfigFiles(c) ==
    /\ pc[c] = "subcfg"
    /\ LET r == ApplySubnetCfg(nodes, CfgWrites(loc[c].subnetIDs, loc[c].specs, 1))
       IN /\ nodes' = r.nodes
          /\ IF r.err
             THEN /\ Finish(c, Err("participant"))
                  /\ UNCHANGED loc
             ELSE /\ loc' = [loc EXCEPT ![c].chainSpecs =
                                FillBack(@, loc[c].subnetIDs)]
                  /\ Goto(c, "waitprim")
    /\ UNCHANGED <<nextNodeID, chainVars, req, envVars, vmVars>>

\* a wait that takes the nodes for validators without looking
AllPrimary_NoCheck == TRUE

\* ready: every node of ln.nodes is among the current primary validators
AllPrimary == \A n \in DOMAIN nodes : nodes[n].nodeID \in primaryCur

AfterWaitPrimary(op) ==
    IF op = "AddPermissionlessValidators" THEN "permtx" ELSE "addsub"

\* ln.waitPrimaryValidators: one pass of the polling loop
WaitPrimaryValidators(c) ==
    /\ pc[c] = "waitprim"
    /\ \E ok \in BOOLEAN :
         IF ~ok THEN Finish(c, Err("query")) /\ UNCHANGED loc
         ELSE IF AllPrimary
         THEN /\ loc' = [loc EXCEPT ![c].primary =
                            {n \in DOMAIN nodes : nodes[n].nodeID \in primaryCur}]
              /\ Goto(c, AfterWaitPrimary(req[c].op))
         ELSE /\ \/ stopped /\ Finish(c, Err("aborted"))
                 \/ ctxDone[c] /\ Finish(c, Err("ctx"))
              /\ UNCHANGED loc
    /\ UNCHANGED <<nodes, nextNodeID, chainVars, req, envVars, vmVars>>

SubnetValidators(subnetID) == {p[2] : p \in {q \in subCur : q[1] = subnetID}}

\* after the last participant of subnet i: the next subnet, or the step
\* that follows addSubnetValidators
AfterAddSubnet(c, i) ==
    IF i < Len(loc[c].subnetIDs) THEN "addsub"
    ELSE IF req[c].op = "CreateBlockchains" THEN "cbtxs" ELSE "restart"

\* the arguments installSubnets and installCustomChains pass to restartNodes
SubnetRestart(c) ==
    [subnetIDs |-> loc[c].subnetIDs, subnetSpecs |-> loc[c].specs,
     valSpecs |-> <<>>, rmSpecs |-> <<>>, given |-> {"subnet"},
     cfgNodes |-> loc[c].toRestart]

\* addSubnetValidators, head of the loop over subnetIDs: the two
\* GetCurrentValidators queries for the next subnet
AddSubnetValidators(c) ==
    /\ pc[c] = "addsub"
    /\ IF loc[c].i >= Len(loc[c].subnetIDs)
       THEN /\ loc' = [loc EXCEPT ![c].rs = SubnetRestart(c), ![c].i = 0, ![c].j = 0]
            /\ Goto(c, AfterAddSubnet(c, loc[c].i))
       ELSE \E ok \in BOOLEAN :
              IF ok
              THEN /\ loc' = [loc EXCEPT
                                ![c].i = @ + 1, ![c].j = 1,
                                ![c].snap = SubnetValidators(loc[c].subnetIDs[loc[c].i + 1])]
                   /\ Goto(c, "addsub_tx")
              ELSE /\ Finish(c, Err("query"))
                   /\ UNCHANGED loc
    /\ UNCHANGED <<nodes, nextNodeID, chainVars, req, envVars, vmVars>>

\* addSubnetValidators, loop over the participants of subnet i:
\* IssueAddSubnetValidatorTx unless the snapshot has the node
AddSubnetValidatorTx(c) ==
    /\ pc[c] = "addsub_tx"
    /\ LET i == loc[c].i
           parts == loc[c].specs[i].participants
           j == loc[c].j
       IN IF j > Len(parts)
          THEN /\ Goto(c, "addsub")
               /\ UNCHANGED <<loc, nextID, subPend, txlog>>
          ELSE IF parts[j] \notin DOMAIN nodes
          THEN /\ Finish(c, Err("participant"))
               /\ UNCHANGED <<loc, nextID, subPend, txlog>>
          ELSE IF nodes[parts[j]].nodeID \in loc[c].snap
          THEN /\ loc' = [loc EXCEPT ![c].j = @ + 1]
               /\ Goto(c, "addsub_tx")
               /\ UNCHANGED <<nextID, subPend, txlog>>
          ELSE \E ok \in BOOLEAN :
                 LET sid == loc[c].subnetIDs[i]
                     nid == nodes[parts[j]].nodeID
                 IN /\ txlog' = Append(txlog,
                                   Tx(c, "addSubnetValidator", nid, sid, nextID, ok))
                    /\ IF ok
                       THEN /\ nextID' = nextID + 1
                            /\ subPend' = subPend \cup ({<<sid, nid>>} \ subCur)
                            /\ loc' = [loc EXCEPT ![c].j = @ + 1]
                            /\ Goto(c, "addsub_tx")
                       ELSE /\ Finish(c, Err("tx"))
                            /\ UNCHANGED <<nextID, subPend, loc>>
    /\ UNCHANGED <<nodes, nextNodeID, primaryCur, primaryPend, subnets, subCur,
                   chains, req, envVars, vmVars>>

\* ------------------------------------------------------------------------
\* restartNodes
\* ------------------------------------------------------------------------

\* a flag built from the specs alone, without the previously tracked subnets
TrackedSet_Replace(name, rs) ==
    {v.subnetID : v \in {w \in Range(rs.valSpecs) : w.nodeName = name}}
      \cup {rs.subnetIDs[i] : i \in {k \in DOMAIN rs.subnetIDs :
                name \in Range(rs.subnetSpecs[k].participants)}}

\* the tracked subnets of a node after the three loops of restartNodes
TrackedSet(name, rs) ==
    LET prev == Range(nodes[name].track)
        vadd == {v.subnetID : v \in {w \in Range(rs.valSpecs) :
                                         w.nodeName = name}}
        vrm == {r.subnetID : r \in {w \in Range(rs.rmSpecs) :
                                        name \in Range(w.nodeNames)}}
        sadd == {rs.subnetIDs[i] : i \in {k \in DOMAIN rs.subnetIDs :
                     name \in Range(rs.subnetSpecs[k].participants)}}
    IN ((prev \cup vadd) \ vrm) \cup sadd

NeedsRestart(name, rs) ==
    \/ \E v \in Range(rs.valSpecs) : v.nodeName = name
    \/ \E r \in Range(rs.rmSpecs) : name \in Range(r.nodeNames)
    \/ \E k \in DOMAIN rs.subnetIDs :
           name \in Range(rs.subnetSpecs[k].participants)
    \/ "subnet" \in rs.given /\ name \in rs.cfgNodes

AfterRestart(op) ==
    IF op = "CreateBlockchains" THEN "reloadvms"
    ELSE IF op = "CreateSubnets" THEN "waitsub" ELSE "return"

\* a restartNodes without the check of its arguments
RestartNodes_NoCheck(c) ==
    /\ pc[c] = "restart"
    /\ loc' = [loc EXCEPT ![c].names = SetToSortedSeq(DOMAIN nodes), ![c].i = 1]
    /\ Goto(c, "restart_node")
    /\ UNCHANGED <<nodes, nextNodeID, chainVars, req, envVars, vmVars>>

\* a restartNodes that walks the node names in descending order
RestartNodes_Descending(c) ==
    /\ pc[c] = "restart"
    /\ LET rs == loc[c].rs
           up == SetToSortedSeq(DOMAIN nodes)
       IN IF Cardinality(rs.given) > 1
          THEN /\ Finish(c, Err("specs"))
               /\ UNCHANGED loc
          ELSE /\ loc' = [loc EXCEPT
                            ![c].names = [k \in DOMAIN up |-> up[Len(up) + 1 - k]],
                            ![c].i = 1]
               /\ Goto(c, "restart_node")
    /\ UNCHANGED <<nodes, nextNodeID, chainVars, req, envVars, vmVars>>

\* restartNodes: the check of its arguments and the sorted node names
RestartNodes(c) ==
    /\ pc[c] = "restart"
    /\ LET rs == loc[c].rs
       IN IF Cardinality(rs.given) > 1
          THEN /\ Finish(c, Err("specs"))
               /\ UNCHANGED loc
          ELSE /\ loc' = [loc EXCEPT ![c].names = SetToSortedSeq(DOMAIN nodes),
                                     ![c].i = 1]
               /\ Goto(c, "restart_node")
    /\ UNCHANGED <<nodes, nextNodeID, chainVars, req, envVars, vmVars>>

\* a restart that hands the node a replacement identity
RestartedNode_NewIdentity(n, id) ==
    [n EXCEPT !.procTrack = n.track, !.gen = @ + 1, !.nodeID = id]

\* ln.restartNode(ctx, nodeName, "", "", "", nil, nil, nil): the process is
\* killed and respawned from the node's record
RestartedNode(n, id) ==
    [n EXCEPT !.procTrack = n.track, !.gen = @ + 1]

\* restartNodes: one iteration of the loop over the sorted node names, and
\* after the last one ln.healthy; installCustomChains then takes a new
\* endpoint from getClientURI and rebinds the wallet with w.reload
RestartNode(c) ==
    /\ pc[c] = "restart_node"
    /\ IF loc[c].i > Len(loc[c].names)
       THEN /\ \E ok \in BOOLEAN :
                 IF ~ok THEN Finish(c, Err("unhealthy")) /\ UNCHANGED loc
                 ELSE IF req[c].op = "CreateBlockchains" /\ GetNode = NoNode
                 THEN Finish(c, Err("nil node")) /\ UNCHANGED loc
                 ELSE IF AfterRestart(req[c].op) = "return"
                 THEN Finish(c, OK(<<>>)) /\ UNCHANGED loc
                 ELSE /\ Goto(c, AfterRestart(req[c].op))
                      /\ loc' = IF req[c].op = "CreateBlockchains"
                                THEN [loc EXCEPT
                                        ![c].uri = GetNode,
                                        ![c].calls = @ \cup {<<"reload", GetNode>>}]
                                ELSE loc
            /\ UNCHANGED <<nodes, nextNodeID>>
       ELSE LET name == loc[c].names[loc[c].i]
                rs == loc[c].rs
                tracked == SetToSortedSeq(TrackedSet(name, rs))
                flagged == [nodes EXCEPT ![name].track = tracked]
            IN IF ~NeedsRestart(name, rs) \/ nodes[name].paused
               THEN /\ nodes' = flagged
                    /\ loc' = [loc EXCEPT ![c].i = @ + 1]
                    /\ Goto(c, "restart_node")
                    /\ UNCHANGED nextNodeID
               ELSE \E ok \in BOOLEAN :
                      IF ok
                      THEN /\ nodes' = [flagged EXCEPT
                                          ![name] = RestartedNode(@, nextNodeID)]
                           /\ nextNodeID' = nextNodeID + 1
                           /\ loc' = [loc EXCEPT ![c].i = @ + 1,
                                                 ![c].restarted = Append(@, name)]
                           /\ Goto(c, "restart_node")
                      ELSE /\ nodes' = flagged
                           /\ Finish(c, Err("restart"))
                           /\ UNCHANGED <<loc, nextNodeID>>
    /\ UNCHANGED <<chainVars, req, envVars, vmVars>>

\* ------------------------------------------------------------------------
\* waitSubnetValidators
\* ------------------------------------------------------------------------
\* the (subnet index, participant) pairs one pass of the loops observes as
\* validators: the pass stops after the first subnet that is not ready
RECURSIVE ObservedFrom(_, _, _)
ObservedFrom(ids, specs, i) ==
    IF i > Len(ids) THEN {}
    ELSE LET seen == {p \in Range(specs[i].participants) :
                         p \in DOMAIN nodes
                         /\ nodes[p].nodeID \in SubnetValidators(ids[i])}
         IN {<<i, p>> : p \in seen}
            \cup (IF seen = Range(specs[i].participants)
                  THEN ObservedFrom(ids, specs, i + 1) ELSE {})

\* a pass that looks at the last subnet only
ReadyFrom_OnlyLast(ids, specs, i) ==
    \/ Len(ids) = 0
    \/ \A p \in Range(specs[Len(ids)].participants) :
          p \in DOMAIN nodes /\ nodes[p].nodeID \in SubnetValidators(ids[Len(ids)])

RECURSIVE ReadyFrom(_, _, _)
\* the ready flag of one pass of the loops of waitSubnetValidators
ReadyFrom(ids, specs, i) ==
    IF i > Len(ids) THEN TRUE
    ELSE /\ \A p \in Range(specs[i].participants) :
               p \in DOMAIN nodes /\ nodes[p].nodeID \in SubnetValidators(ids[i])
         /\ ReadyFrom(ids, specs, i + 1)

\* ln.waitSubnetValidators: one pass of the polling loop
WaitSubnetValidators(c) ==
    /\ pc[c] = "waitsub"
    /\ \E ok \in BOOLEAN :
         IF ~ok /\ Len(loc[c].subnetIDs) > 0
         THEN /\ Finish(c, Err("query"))
              /\ UNCHANGED loc
         ELSE IF ReadyFrom(loc[c].subnetIDs, loc[c].specs, 1)
         THEN /\ loc' = [loc EXCEPT ![c].waited = TRUE, ![c].i = 0,
                           ![c].observed =
                               ObservedFrom(loc[c].subnetIDs, loc[c].specs, 1)]
              /\ IF req[c].op = "CreateSubnets"
                 THEN Finish(c, OK(loc[c].subnetIDs))
                 ELSE Goto(c, "issue")
         ELSE /\ UNCHANGED loc
              /\ \/ stopped /\ Finish(c, Err("aborted"))
                 \/ ctxDone[c] /\ Finish(c, Err("ctx"))
    /\ UNCHANGED <<nodes, nextNodeID, chainVars, req, envVars, vmVars>>

\* ------------------------------------------------------------------------
\* CreateBlockchains: installCustomChains
\* ------------------------------------------------------------------------
\* a BlockchainSpec; subnetSpec holds the nested spec, if any
BlockchainSpec(vm, sid, nested, cfg, perNode, upgrade, alias) ==
    [vm |-> vm, subnetID |-> sid, subnetSpec |-> nested, chainConfig |-> cfg,
     perNode |-> perNode, upgrade |-> upgrade, alias |-> alias]

CreateBlockchains(c, specs) ==
    /\ pc[c] = "idle"
    /\ pc' = [pc EXCEPT ![c] = "lock"]
    /\ req' = [req EXCEPT ![c] = [NoReq EXCEPT !.op = "CreateBlockchains",
                                               !.chainSpecs = specs]]
    /\ UNCHANGED <<nodes, nextNodeID, chainVars, lock, loc, ret, envVars, vmVars>>

RECURSIVE NewSubnetSpecs(_)
\* the subnet specs of the blockchain specs that have no subnet ID
NewSubnetSpecs(chainSpecs) ==
    IF chainSpecs = <<>> THEN <<>>
    ELSE (IF Head(chainSpecs).subnetID # NoID THEN <<>>
          ELSE IF Head(chainSpecs).subnetSpec = <<>> THEN <<SubnetSpec(<<>>, Nil)>>
          ELSE Head(chainSpecs).subnetSpec)
         \o NewSubnetSpecs(Tail(chainSpecs))

\* the subnet IDs a workflow hands to newWallet as preloadTXs
PreloadOf(seq) == {seq[k].subnetID : k \in DOMAIN seq} \ {NoID}

\* installCustomChains up to the participant fill: getClientURI, the
\* preload list, newWallet, the new subnet specs
InstallCustomChainsBegin(c) ==
    /\ pc[c] = "begin"
    /\ req[c].op = "CreateBlockchains"
    /\ IF GetNode = NoNode
       THEN /\ Finish(c, Err("nil node"))
            /\ UNCHANGED loc
       ELSE IF BadID \in PreloadOf(req[c].chainSpecs)
       THEN /\ Finish(c, Err("subnet id"))
            /\ UNCHANGED loc
       ELSE \E ok \in BOOLEAN :
              IF ok /\ PreloadOf(req[c].chainSpecs) \subseteq subnets
              THEN /\ loc' = [loc EXCEPT
                                ![c].uri = GetNode,
                                ![c].chainSpecs = req[c].chainSpecs,
                                ![c].specs =
                                    FillParticipants(NewSubnetSpecs(req[c].chainSpecs))]
                   /\ Goto(c, "spawn")
              ELSE /\ Finish(c, Err("wallet"))
                   /\ UNCHANGED loc
    /\ UNCHANGED <<nodes, nextNodeID, chainVars, req, envVars, vmVars>>

\* createBlockchainTxs: one iteration of the loop over the chain specs.
\* IssueCreateChainTx hands the transaction to the platform chain.
CreateBlockchainTxs(c) ==
    /\ pc[c] = "cbtxs"
    /\ IF Len(loc[c].txs) >= Len(loc[c].chainSpecs)
       THEN /\ loc' = [loc EXCEPT ![c].i = 0]
            /\ Goto(c, "bccfg")
            /\ UNCHANGED <<nextID, chains, txlog>>
       ELSE LET spec == loc[c].chainSpecs[Len(loc[c].txs) + 1]
            IN IF VMID(spec.vm).err
               THEN /\ Finish(c, Err("vm name"))
                    /\ UNCHANGED <<loc, nextID, chains, txlog>>
               ELSE \E ok \in BOOLEAN :
                      /\ txlog' = Append(txlog, Tx(c, "createChain", 0,
                                                   spec.subnetID, nextID, ok))
                      /\ IF ok
                         THEN /\ nextID' = nextID + 1
                              /\ chains' = chains \cup
                                    {[id |-> nextID, subnet |-> spec.subnetID]}
                              /\ loc' = [loc EXCEPT ![c].txs = Append(@, nextID)]
                              /\ Goto(c, "cbtxs")
                         ELSE /\ Finish(c, Err("tx"))
                              /\ UNCHANGED <<loc, nextID, chains>>
    /\ UNCHANGED <<nodes, nextNodeID, primaryCur, primaryPend, subnets, subCur,
                   subPend, req, envVars, vmVars>>

\* a getSubnetValidatorsNodenames that does not compare the lengths
GetSubnetValidatorsNodenames_NoCheck(subnetID) ==
    [names |-> SetToSortedSeq({n \in DOMAIN nodes :
                                  nodes[n].nodeID \in SubnetValidators(subnetID)}),
     err |-> FALSE]

\* getSubnetValidatorsNodenames: the registry names of the current
\* validators of a subnet; err when a validator is no node of the registry
GetSubnetValidatorsNodenames(subnetID) ==
    LET vs == SubnetValidators(subnetID)
        names == {n \in DOMAIN nodes : nodes[n].nodeID \in vs}
    IN [names |-> SetToSortedSeq(names),
        err |-> Cardinality(names) # Cardinality(vs)]

\* the participants setBlockchainConfigFiles takes from the specs of the
\* subnets created by this call
NewSubnetParticipants(c, sid) ==
    LET js == {j \in DOMAIN loc[c].subnetIDs : loc[c].subnetIDs[j] = sid}
    IN IF js = {} THEN <<>>
       ELSE loc[c].specs[CHOOSE j \in js : \A k \in js : k <= j].participants

RECURSIVE WriteChainCfg(_, _, _, _)
\* ln.nodes[nodeName].config.ChainConfigFiles[chainAlias] = chainConfig
WriteChainCfg(ns, parts, alias, spec) ==
    IF parts = <<>> THEN [nodes |-> ns, err |-> FALSE]
    ELSE LET n == Head(parts)
             content == IF n \in DOMAIN spec.perNode THEN spec.perNode[n]
                        ELSE spec.chainConfig
         IN IF n \notin DOMAIN ns THEN [nodes |-> ns, err |-> TRUE]
            ELSE WriteChainCfg([ns EXCEPT ![n].chainCfg = (alias :> content) @@ @],
                               Tail(parts), alias, spec)

RECURSIVE WriteUpgradeCfg(_, _, _, _)
\* ln.nodes[nodeName].config.UpgradeConfigFiles[chainAlias] = NetworkUpgrade
WriteUpgradeCfg(ns, parts, alias, spec) ==
    IF parts = <<>> THEN [nodes |-> ns, err |-> FALSE]
    ELSE LET n == Head(parts)
         IN IF n \notin DOMAIN ns THEN [nodes |-> ns, err |-> TRUE]
            ELSE WriteUpgradeCfg(
                   [ns EXCEPT ![n].upgCfg = (alias :> spec.upgrade) @@ @],
                   Tail(parts), alias, spec)

WritesChainCfg(spec) == spec.chainConfig # Nil \/ DOMAIN spec.perNode # {}

\* the alias of the first transaction, for every spec
ChainAlias_First(c, i) == loc[c].txs[1]

\* chainAlias = blockchainTxs[i].ID().String(): the alias under which the
\* config files of spec i are stored

ChainAlias(c, i) == loc[c].txs[i]

\* an installCustomChains that restarts the network in every call
NeedsNetworkRestart_Always(c) == TRUE

\* we need to restart if there are new subnets or if there are new network
\* config files
NeedsNetworkRestart(c) == Len(loc[c].specs) > 0 \/ loc[c].toRestart # {}

\* setBlockchainConfigFiles: one iteration of the loop over the chain specs,
\* and after the last one the choice between restartNodes and no restart
SetBlockchainConfigFiles(c) ==
    /\ pc[c] = "bccfg"
    /\ IF loc[c].i >= Len(loc[c].chainSpecs)
       THEN /\ IF NeedsNetworkRestart(c)
               THEN /\ loc' = [loc EXCEPT ![c].rs = SubnetRestart(c)]
                    /\ Goto(c, "restart")
               ELSE /\ Goto(c, "reloadvms")
                    /\ UNCHANGED loc
            /\ UNCHANGED nodes
       ELSE LET i == loc[c].i + 1
                spec == loc[c].chainSpecs[i]
                fromSpec == NewSubnetParticipants(c, spec.subnetID)
                q == GetSubnetValidatorsNodenames(spec.subnetID)
            IN \E ok \in BOOLEAN :
                 IF Len(fromSpec) = 0 /\ GetNode = NoNode
                 THEN /\ Finish(c, Err("nil node"))
                      /\ UNCHANGED <<nodes, loc>>
                 ELSE IF Len(fromSpec) = 0 /\ (~ok \/ q.err)
                 THEN /\ Finish(c, Err("validators"))
                      /\ UNCHANGED <<nodes, loc>>
                 ELSE LET parts == IF Len(fromSpec) = 0 THEN q.names ELSE fromSpec
                          w1 == IF WritesChainCfg(spec)
                                THEN WriteChainCfg(nodes, parts, ChainAlias(c, i), spec)
                                ELSE [nodes |-> nodes, err |-> FALSE]
                          w2 == IF spec.upgrade # Nil /\ ~w1.err
                                THEN WriteUpgradeCfg(w1.nodes, parts,
                                                     ChainAlias(c, i), spec)
                                ELSE w1
                      IN /\ nodes' = w2.nodes
                         /\ IF w2.err
                            THEN /\ Finish(c, Err("participant"))
                                 /\ UNCHANGED loc
                            ELSE /\ loc' = [loc EXCEPT
                                       ![c].i = i,
                                       ![c].toRestart =
                                           IF WritesChainCfg(spec) \/ spec.upgrade # Nil
                                           THEN @ \cup Range(parts) ELSE @]
                                 /\ Goto(c, "bccfg")
    /\ UNCHANGED <<nextNodeID, chainVars, req, envVars, vmVars>>

\* a loop over ln.nodes that skips no node
NotPaused_All == DOMAIN nodes

\* the nodes a loop over ln.nodes that skips the paused ones calls
NotPaused == {n \in DOMAIN nodes : ~nodes[n].paused}

\* ln.reloadVMPlugins: LoadVMs on every node that is not paused; the loop
\* returns at the first failure
ReloadVMPlugins(c) ==
    /\ pc[c] = "reloadvms"
    /\ \E ok \in BOOLEAN :
         IF ok THEN Goto(c, "waitsub") ELSE Finish(c, Err("load vms"))
    /\ loc' = [loc EXCEPT ![c].calls = @ \cup {<<"LoadVMs", n>> : n \in NotPaused}]
    /\ UNCHANGED <<nodes, nextNodeID, chainVars, req, envVars, vmVars>>

\* ln.createBlockchains: IssueTx of the next transaction of blockchainTxs;
\* after the last one installCustomChains builds chainInfos
IssueBlockchainTx(c) ==
    /\ pc[c] = "issue"
    /\ IF loc[c].i >= Len(loc[c].chainSpecs)
       THEN /\ loc' = [loc EXCEPT ![c].i = 0]
            /\ Goto(c, "ready")
            /\ UNCHANGED txlog
       ELSE LET i == loc[c].i + 1
                spec == loc[c].chainSpecs[i]
            IN IF VMID(spec.vm).err
               THEN /\ Finish(c, Err("vm name"))
                    /\ UNCHANGED <<loc, txlog>>
               ELSE \E ok \in BOOLEAN :
                      /\ txlog' = Append(txlog, Tx(c, "issueChain", 0, spec.subnetID,
                                                   loc[c].txs[i], ok))
                      /\ IF ok
                         THEN /\ loc' = [loc EXCEPT ![c].i = i]
                              /\ Goto(c, "issue")
                         ELSE /\ Finish(c, Err("tx"))
                              /\ UNCHANGED loc
    /\ UNCHANGED <<nodes, nextNodeID, nextID, primaryCur, primaryPend, subnets,
                   subCur, subPend, chains, req, envVars, vmVars>>

\* waitForCustomChainsReady: ln.healthy, then for each chain the names of
\* the validators of its subnet
WaitForCustomChainsReady(c) ==
    /\ pc[c] = "ready"
    /\ IF loc[c].i >= Len(loc[c].txs)
       THEN /\ \E ok \in BOOLEAN :
                 IF ok \/ loc[c].i > 0 THEN Goto(c, "alias")
                 ELSE Finish(c, Err("unhealthy"))
            /\ UNCHANGED loc
       ELSE LET q == GetSubnetValidatorsNodenames(loc[c].chainSpecs[loc[c].i + 1].subnetID)
            IN \E ok \in BOOLEAN :
                 IF ~ok
                 THEN /\ Finish(c, Err(IF loc[c].i = 0 THEN "unhealthy" ELSE "validators"))
                      /\ UNCHANGED loc
                 ELSE IF GetNode = NoNode
                 THEN /\ Finish(c, Err("nil node"))
                      /\ UNCHANGED loc
                 ELSE IF q.err
                 THEN /\ Finish(c, Err("validators"))
                      /\ UNCHANGED loc
                 ELSE /\ loc' = [loc EXCEPT ![c].i = @ + 1, ![c].j = 1,
                                            ![c].names = q.names]
                      /\ Goto(c, "ready_log")
    /\ UNCHANGED <<nodes, nextNodeID, chainVars, req, envVars, vmVars>>

\* a readiness wait that goes on to the next validator without the log
WaitChainLog_NoPoll(c) ==
    /\ pc[c] = "ready_log"
    /\ IF loc[c].j > Len(loc[c].names)
       THEN /\ Goto(c, "ready")
            /\ UNCHANGED loc
       ELSE /\ loc' = [loc EXCEPT ![c].j = @ + 1]
            /\ Goto(c, "ready_log")
    /\ UNCHANGED <<nodes, nextNodeID, chainVars, req, envVars, vmVars>>

\* waitForCustomChainsReady: the poll for <blockchainID>.log in the log
\* directory of the next validator
WaitChainLog(c) ==
    /\ pc[c] = "ready_log"
    /\ IF loc[c].j > Len(loc[c].names)
       THEN /\ Goto(c, "ready")
            /\ UNCHANGED loc
       ELSE LET n == loc[c].names[loc[c].j]
            IN IF nodes[n].paused
               THEN /\ loc' = [loc EXCEPT ![c].j = @ + 1]
                    /\ Goto(c, "ready_log")
               ELSE IF <<n, loc[c].txs[loc[c].i]>> \in logs
               THEN /\ loc' = [loc EXCEPT ![c].j = @ + 1,
                                          ![c].calls = @ \cup {<<"log", n>>}]
                    /\ Goto(c, "ready_log")
               ELSE /\ UNCHANGED loc
                    /\ \/ stopped /\ Finish(c, Err("aborted"))
                       \/ ctxDone[c] /\ Finish(c, Err("ctx"))
    /\ UNCHANGED <<nodes, nextNodeID, chainVars, req, envVars, vmVars>>

\* RegisterBlockchainAliases, and the chain IDs CreateBlockchains returns
RegisterBlockchainAliases(c) ==
    /\ pc[c] = "alias"
    /\ \E ok \in BOOLEAN :
         IF ok \/ \A k \in DOMAIN req[c].chainSpecs : req[c].chainSpecs[k].alias = Nil
         THEN Finish(c, OK(loc[c].txs))
         ELSE Finish(c, Err("alias"))
    /\ loc' = [loc EXCEPT ![c].calls =
                  IF \A k \in DOMAIN req[c].chainSpecs : req[c].chainSpecs[k].alias = Nil
                  THEN @ ELSE @ \cup {<<"AliasChain", n>> : n \in NotPaused}]
    /\ UNCHANGED <<nodes, nextNodeID, chainVars, req, envVars, vmVars>>

\* ------------------------------------------------------------------------
\* AddPermissionlessValidators
\* ------------------------------------------------------------------------
PermissionlessValidatorSpec(sid, name) == [subnetID |-> sid, nodeName |-> name]

AddPermissionlessValidators(c, specs) ==
    /\ pc[c] = "idle"
    /\ pc' = [pc EXCEPT ![c] = "lock"]
    /\ req' = [req EXCEPT ![c] = [NoReq EXCEPT !.op = "AddPermissionlessValidators",
                                               !.valSpecs = specs]]
    /\ UNCHANGED <<nodes, nextNodeID, chainVars, lock, loc, ret, envVars, vmVars>>

\* addPermissionlessValidators up to newWallet
AddPermissionlessBegin(c) ==
    /\ pc[c] = "begin"
    /\ req[c].op = "AddPermissionlessValidators"
    /\ IF GetNode = NoNode THEN Finish(c, Err("nil node"))
       ELSE IF BadID \in PreloadOf(req[c].valSpecs) THEN Finish(c, Err("subnet id"))
       ELSE \E ok \in BOOLEAN :
              IF ok /\ PreloadOf(req[c].valSpecs) \subseteq subnets
              THEN Goto(c, "spawn") ELSE Finish(c, Err("wallet"))
    /\ loc' = [loc EXCEPT ![c].uri = GetNode]
    /\ UNCHANGED <<nodes, nextNodeID, chainVars, req, envVars, vmVars>>

\* addPermissionlessValidators: the query of the primary validators' end
\* times, then IssueAddPermissionlessValidatorTx for the next spec
AddPermissionlessValidatorTx(c) ==
    /\ pc[c] = "permtx"
    /\ IF loc[c].i >= Len(req[c].valSpecs)
       THEN /\ \E ok \in BOOLEAN :
                 IF ok \/ loc[c].i > 0
                 THEN /\ loc' = [loc EXCEPT ![c].rs =
                                   [NoRestart EXCEPT !.valSpecs = req[c].valSpecs,
                                                     !.given = {"val"}]]
                      /\ Goto(c, "restart")
                 ELSE /\ Finish(c, Err("query"))
                      /\ UNCHANGED loc
            /\ UNCHANGED <<nextID, subPend, txlog>>
       ELSE LET spec == req[c].valSpecs[loc[c].i + 1]
                nid == nodes[spec.nodeName].nodeID
            IN \E ok \in BOOLEAN :
                 IF ~ok /\ loc[c].i = 0
                 THEN /\ Finish(c, Err("query"))
                      /\ UNCHANGED <<loc, nextID, subPend, txlog>>
                 ELSE /\ txlog' = Append(txlog, Tx(c, "addPermissionless", nid,
                                                   spec.subnetID, nextID, ok))
                      /\ IF ok
                         THEN /\ nextID' = nextID + 1
                              /\ subPend' = subPend \cup
                                               ({<<spec.subnetID, nid>>} \ subCur)
                              /\ loc' = [loc EXCEPT ![c].i = @ + 1]
                              /\ Goto(c, "permtx")
                         ELSE /\ Finish(c, Err("tx"))
                              /\ UNCHANGED <<loc, nextID, subPend>>
    /\ UNCHANGED <<nodes, nextNodeID, primaryCur, primaryPend, subnets, subCur,
                   chains, req, envVars, vmVars>>

\* ------------------------------------------------------------------------
\* RemoveSubnetValidators
\* ------------------------------------------------------------------------
RemoveSubnetValidatorSpec(sid, names) == [subnetID |-> sid, nodeNames |-> names]

RemoveSubnetValidators(c, specs) ==
    /\ pc[c] = "idle"
    /\ pc' = [pc EXCEPT ![c] = "lock"]
    /\ req' = [req EXCEPT ![c] = [NoReq EXCEPT !.op = "RemoveSubnetValidators",
                                               !.rmSpecs = specs]]
    /\ UNCHANGED <<nodes, nextNodeID, chainVars, lock, loc, ret, envVars, vmVars>>

\* removeSubnetValidators up to newWallet
RemoveSubnetValidatorsBegin(c) ==
    /\ pc[c] = "begin"
    /\ req[c].op = "RemoveSubnetValidators"
    /\ IF GetNode = NoNode THEN Finish(c, Err("nil node"))
       ELSE IF BadID \in PreloadOf(req[c].rmSpecs) THEN Finish(c, Err("subnet id"))
       ELSE \E ok \in BOOLEAN :
              IF ok /\ PreloadOf(req[c].rmSpecs) \subseteq subnets
              THEN Goto(c, "rm") ELSE Finish(c, Err("wallet"))
    /\ loc' = [loc EXCEPT ![c].uri = GetNode]
    /\ UNCHANGED <<nodes, nextNodeID, chainVars, req, envVars, vmVars>>

\* removeSubnetValidators, head of the loop over the specs: the query of
\* the subnet's current validators
RemoveSubnetValidatorsQuery(c) ==
    /\ pc[c] = "rm"
    /\ IF loc[c].i >= Len(req[c].rmSpecs)
       THEN /\ loc' = [loc EXCEPT ![c].rs =
                         [NoRestart EXCEPT !.rmSpecs = req[c].rmSpecs,
                                           !.given = {"rm"}]]
            /\ Goto(c, "restart")
       ELSE \E ok \in BOOLEAN :
              IF ok
              THEN /\ loc' = [loc EXCEPT
                                ![c].i = @ + 1, ![c].j = 1,
                                ![c].snap =
                                    SubnetValidators(req[c].rmSpecs[loc[c].i + 1].subnetID)]
                   /\ Goto(c, "rm_tx")
              ELSE /\ Finish(c, Err("query"))
                   /\ UNCHANGED loc
    /\ UNCHANGED <<nodes, nextNodeID, chainVars, req, envVars, vmVars>>

\* removeSubnetValidators, loop over the node names of spec i:
\* IssueRemoveSubnetValidatorTx
RemoveSubnetValidatorTx(c) ==
    /\ pc[c] = "rm_tx"
    /\ LET spec == req[c].rmSpecs[loc[c].i]
           j == loc[c].j
       IN IF j > Len(spec.nodeNames)
          THEN /\ Goto(c, "rm")
               /\ UNCHANGED <<loc, nextID, subCur, txlog>>
          ELSE IF spec.nodeNames[j] \notin DOMAIN nodes
          THEN /\ Finish(c, Err("node"))
               /\ UNCHANGED <<loc, nextID, subCur, txlog>>
          ELSE IF nodes[spec.nodeNames[j]].nodeID \notin loc[c].snap
          THEN /\ Finish(c, Err("not a validator"))
               /\ UNCHANGED <<loc, nextID, subCur, txlog>>
          ELSE \E ok \in BOOLEAN :
                 LET nid == nodes[spec.nodeNames[j]].nodeID
                 IN /\ ok => <<spec.subnetID, nid>> \in subCur
                    /\ txlog' = Append(txlog, Tx(c, "removeSubnetValidator", nid,
                                                 spec.subnetID, nextID, ok))
                    /\ IF ok
                       THEN /\ nextID' = nextID + 1
                            /\ subCur' = subCur \ {<<spec.subnetID, nid>>}
                            /\ loc' = [loc EXCEPT ![c].j = @ + 1]
                            /\ Goto(c, "rm_tx")
                       ELSE /\ Finish(c, Err("tx"))
                            /\ UNCHANGED <<nextID, subCur, loc>>
    /\ UNCHANGED <<nodes, nextNodeID, primaryCur, primaryPend, subnets, subPend,
                   chains, req, envVars, vmVars>>

\* ------------------------------------------------------------------------
\* TransformSubnet
\* ------------------------------------------------------------------------
ElasticSubnetSpec(sid) == [subnetID |-> sid]

TransformSubnet(c, specs) ==
    /\ pc[c] = "idle"
    /\ pc' = [pc EXCEPT ![c] = "lock"]
    /\ req' = [req EXCEPT ![c] = [NoReq EXCEPT !.op = "TransformSubnet",
                                               !.elasticSpecs = specs]]
    /\ UNCHANGED <<nodes, nextNodeID, chainVars, lock, loc, ret, envVars, vmVars>>

\* a validation loop that looks at the first spec only
ElasticSpecIDs_First(specs) == {specs[1].subnetID}

\* the subnet IDs the validation loop of transformToElasticSubnets reads,
\* one per spec, before the wallet is created
ElasticSpecIDs(specs) == {specs[k].subnetID : k \in DOMAIN specs}

\* transformToElasticSubnets up to newWallet
TransformBegin(c) ==
    /\ pc[c] = "begin"
    /\ req[c].op = "TransformSubnet"
    /\ LET ids == ElasticSpecIDs(req[c].elasticSpecs)
       IN IF GetNode = NoNode THEN Finish(c, Err("nil node"))
          ELSE IF NoID \in ids \/ BadID \in ids THEN Finish(c, Err("subnet id"))
          ELSE \E ok \in BOOLEAN :
                 IF ok /\ ids \subseteq subnets
                 THEN Goto(c, "elastic") ELSE Finish(c, Err("wallet"))
    /\ loc' = [loc EXCEPT ![c].uri = GetNode]
    /\ UNCHANGED <<nodes, nextNodeID, chainVars, req, envVars, vmVars>>

\* the import issued before the export
ElasticTxKind_ImportFirst(j) ==
    IF j = 0 THEN "createAsset" ELSE IF j = 1 THEN "import"
    ELSE IF j = 2 THEN "export" ELSE "transformSubnet"

\* the transactions of one spec: getXChainAssetID, exportXChainToPChain,
\* importPChainFromXChain, IssueTransformSubnetTx
ElasticTxKind(j) ==
    IF j = 0 THEN "createAsset" ELSE IF j = 1 THEN "export"
    ELSE IF j = 2 THEN "import" ELSE "transformSubnet"

\* transformToElasticSubnets: the next transaction of the current spec;
\* the transform-subnet transaction is followed by the map write
TransformTx(c) ==
    /\ pc[c] = "elastic"
    /\ IF loc[c].i >= Len(req[c].elasticSpecs)
       THEN /\ Finish(c, OK(loc[c].txs))
            /\ UNCHANGED <<loc, nextID, txlog, elastic>>
       ELSE LET sid == req[c].elasticSpecs[loc[c].i + 1].subnetID
                j == loc[c].j
            IN \E ok \in BOOLEAN :
                 /\ txlog' = Append(txlog, Tx(c, ElasticTxKind(j), 0, sid, nextID, ok))
                 /\ IF ~ok
                    THEN /\ Finish(c, Err("tx"))
                         /\ UNCHANGED <<loc, nextID, elastic>>
                    ELSE /\ nextID' = nextID + 1
                         /\ Goto(c, "elastic")
                         /\ IF j < 3
                            THEN /\ loc' = [loc EXCEPT ![c].j = @ + 1]
                                 /\ UNCHANGED elastic
                            ELSE /\ loc' = [loc EXCEPT ![c].j = 0, ![c].i = @ + 1,
                                                       ![c].txs = Append(@, nextID)]
                                 /\ elastic' = (sid :> nextID) @@ elastic
    /\ UNCHANGED <<nodes, nextNodeID, primaryCur, primaryPend, subnets, subCur,
                   subPend, chains, req, stopped, ctxDone, logs, vmVars>>

\* ------------------------------------------------------------------------
\* The platform chain and the callers' surroundings
\* ------------------------------------------------------------------------
\* a pending primary-network validator reaches its start time
PrimaryValidatorStarts ==
    /\ \E id \in primaryPend :
         /\ primaryPend' = primaryPend \ {id}
         /\ primaryCur' = primaryCur \cup {id}
    /\ UNCHANGED <<nodes, nextNodeID, nextID, subnets, subCur, subPend, chains,
                   txlog, callVars, envVars, vmVars>>

\* a pending subnet validator reaches its start time
SubnetValidatorStarts ==
    /\ \E p \in subPend :
         /\ subPend' = subPend \ {p}
         /\ subCur' = subCur \cup {p}
    /\ UNCHANGED <<nodes, nextNodeID, nextID, primaryCur, primaryPend, subnets,
                   chains, txlog, callVars, envVars, vmVars>>

\* a node that runs with a chain's subnet tracked starts the chain and
\* writes <blockchainID>.log. The log files are read by
\* waitForCustomChainsReady only, so the writes are taken while a call is
\* in it.
ChainLogAppears ==
    /\ \E c \in Callers : pc[c] \in {"ready", "ready_log"}
    /\ \E n \in DOMAIN nodes, ch \in chains :
         /\ ~nodes[n].paused
         /\ ch.subnet \in Range(nodes[n].procTrack)
         /\ <<n, ch.id>> \notin logs
         /\ logs' = logs \cup {<<n, ch.id>>}
    /\ UNCHANGED <<nodes, nextNodeID, chainVars, callVars, stopped, ctxDone,
                   elastic, vmVars>>

\* PauseNode: the process of a node is suspended; the record stays in the
\* registry with paused = true
PauseNode(n) ==
    /\ lock = Free
    /\ n \in DOMAIN nodes
    /\ ~nodes[n].paused
    /\ nodes' = [nodes EXCEPT ![n].paused = TRUE]
    /\ UNCHANGED <<nextNodeID, chainVars, callVars, envVars, vmVars>>

\* RemoveNode: the node is stopped and its record leaves the registry; what
\* the platform chain knows of its validations stays
RemoveNode(n) ==
    /\ lock = Free
    /\ n \in DOMAIN nodes
    /\ nodes' = [m \in DOMAIN nodes \ {n} |-> nodes[m]]
    /\ UNCHANGED <<nextNodeID, chainVars, callVars, envVars, vmVars>>

\* ResumeNode: the suspended process continues as it was started
ResumeNode(n) ==
    /\ lock = Free
    /\ n \in DOMAIN nodes
    /\ nodes[n].paused
    /\ nodes' = [nodes EXCEPT ![n].paused = FALSE]
    /\ UNCHANGED <<nextNodeID, chainVars, callVars, envVars, vmVars>>

\* ------------------------------------------------------------------------
\* Initial state: a healthy two-node network whose nodes are genesis
\* validators, no call in progress
\* ------------------------------------------------------------------------
InitNetwork ==
    /\ nodes = [n \in InitNames |-> NodeRec(100 + n, BasePort + 2 * (n - 1))]
    /\ nextNodeID = 100 + Cardinality(Names) + 1
    /\ nextID = 1
    /\ primaryCur = {100 + n : n \in InitNames}
    /\ primaryPend = {}
    /\ subnets = {}
    /\ subCur = {}
    /\ subPend = {}
    /\ chains = {}
    /\ txlog = <<>>
    /\ lock = Free
    /\ pc = [c \in Callers |-> "idle"]
    /\ req = [c \in Callers |-> NoReq]
    /\ loc = [c \in Callers |-> Loc0]
    /\ ret = [c \in Callers |-> NoRet]
    /\ stopped = FALSE
    /\ ctxDone = [c \in Callers |-> FALSE]
    /\ logs = {}
    /\ elastic = EmptyMap

Init ==
    /\ InitNetwork
    /\ vmIn = <<>>
    /\ vmOut = <<>>
    /\ valIn = <<>>
    /\ valOut = <<>>
    /\ NoAux

\* the node names that are not in the initial registry
Spares == Names \ InitNames

\* the subnet specs requests are drawn from
SubnetSpecInputs ==
    { <<>>,
      <<SubnetSpec(<<>>, Nil)>>,
      <<SubnetSpec(<<1>>, Nil), SubnetSpec(<<2, 2>>, Nil)>> }
    \cup { <<SubnetSpec(<<n>>, "s")>> : n \in Spares }
    \cup { <<SubnetSpec(<<>>, "s"), SubnetSpec(<<n>>, Nil)>> : n \in Spares }

VMShort == <<115, 118, 109>>
VMLong == Rep(97, IDLen + 1)

\* the steps of the code shared by installSubnets and installCustomChains
\* (and, up to waitPrimaryValidators, by addPermissionlessValidators)
SharedSteps(c) ==
    \/ Lock(c)
    \/ SpawnParticipants(c)
    \/ Healthy(c)
    \/ AddPrimaryValidators(c)
    \/ AddPrimaryValidatorTx(c)
    \/ WaitPrimaryValidators(c)
    \/ RestartNodes(c)
    \/ RestartNode(c)

SubnetSteps(c) ==
    \/ CreateSubnetTx(c)
    \/ SetSubnetConfigFiles(c)
    \/ AddSubnetValidators(c)
    \/ AddSubnetValidatorTx(c)
    \/ WaitSubnetValidators(c)

ChainSteps(c) ==
    \/ InstallCustomChainsBegin(c)
    \/ CreateBlockchainTxs(c)
    \/ SetBlockchainConfigFiles(c)
    \/ ReloadVMPlugins(c)
    \/ IssueBlockchainTx(c)
    \/ WaitForCustomChainsReady(c)
    \/ WaitChainLog(c)
    \/ RegisterBlockchainAliases(c)

OtherSteps(c) ==
    \/ AddPermissionlessBegin(c)
    \/ AddPermissionlessValidatorTx(c)
    \/ RemoveSubnetValidatorsBegin(c)
    \/ RemoveSubnetValidatorsQuery(c)
    \/ RemoveSubnetValidatorTx(c)
    \/ TransformBegin(c)
    \/ TransformTx(c)

\* ------------------------------------------------------------------------
\* SpecSubnets: concurrent CreateSubnets calls
\* ------------------------------------------------------------------------
NextSubnets ==
    \/ \E c \in Callers : \E specs \in SubnetSpecInputs : CreateSubnets(c, specs)
    \/ \E c \in Callers : InstallSubnetsBegin(c)
    \/ \E c \in Callers : SharedSteps(c)
    \/ \E c \in Callers : SubnetSteps(c)
    \/ PrimaryValidatorStarts
    \/ SubnetValidatorStarts

SpecSubnets == Init /\ [][NextSubnets]_vars

\* ------------------------------------------------------------------------
\* SpecChains: concurrent CreateBlockchains calls
\* ------------------------------------------------------------------------
NewChain(vm, parts) ==
    BlockchainSpec(vm, NoID, parts, Nil, EmptyMap, Nil, Nil)

\* the blockchain specs requests are drawn from; subs: the subnets that exist
ChainSpecInputs(subs) ==
    { <<NewChain(VMShort, <<>>)>>,
      <<BlockchainSpec(VMShort, NoID, <<SubnetSpec(<<1>>, Nil)>>, Nil, (2 :> "p"),
                       Nil, Nil),
        BlockchainSpec(VMShort, NoID, <<>>, "c2", (2 :> "p"), "u2", Nil)>>,
      <<BlockchainSpec(VMShort, BadID, <<>>, Nil, EmptyMap, Nil, Nil)>> }
    \cup { <<BlockchainSpec(VMShort, NoID, <<SubnetSpec(<<n>>, "s")>>, "c", EmptyMap,
                            "u", "a")>> : n \in Spares }
    \cup { <<NewChain(VMLong, <<SubnetSpec(<<n>>, Nil)>>)>> : n \in Spares }
    \cup { <<BlockchainSpec(VMShort, sid, <<>>, cfg, EmptyMap, Nil, Nil)>> :
              sid \in subs, cfg \in {Nil, "c"} }
    \cup { <<NewChain(VMShort, <<SubnetSpec(<<2>>, Nil)>>),
             BlockchainSpec(VMShort, sid, <<SubnetSpec(<<1>>, Nil)>>, Nil, EmptyMap,
                            Nil, Nil),
             NewChain(VMShort, <<SubnetSpec(<<1>>, Nil)>>)>> : sid \in subs }

NextChains ==
    \/ \E c \in Callers : \E specs \in ChainSpecInputs(subnets) :
          CreateBlockchains(c, specs)
    \/ \E c \in Callers : SharedSteps(c)
    \/ \E c \in Callers : SubnetSteps(c)
    \/ \E c \in Callers : ChainSteps(c)
    \/ PrimaryValidatorStarts
    \/ SubnetValidatorStarts
    \/ ChainLogAppears

SpecChains == Init /\ [][NextChains]_vars

\* ------------------------------------------------------------------------
\* Spec: concurrent calls of the five workflow entry points
\* ------------------------------------------------------------------------
Next ==
    \/ \E c \in Callers :
          \E specs \in {<<SubnetSpec(<<>>, Nil)>>}
                         \cup {<<SubnetSpec(<<n>>, Nil)>> : n \in Spares} :
             CreateSubnets(c, specs)
    \/ \E c \in Callers :
          \E specs \in {<<NewChain(VMShort, <<SubnetSpec(<<1>>, Nil)>>)>>} :
             CreateBlockchains(c, specs)
    \/ \E c \in Callers : \E sid \in subnets \cup {BadID}, n \in {1} \cup Spares :
          AddPermissionlessValidators(c, <<PermissionlessValidatorSpec(sid, n)>>)
    \/ \E c \in Callers : \E sid \in subnets \cup {BadID}, n \in {1, 2} :
          RemoveSubnetValidators(c, <<RemoveSubnetValidatorSpec(sid, <<n>>)>>)
    \/ \E c \in Callers : \E sid \in subnets \cup {NoID} :
          TransformSubnet(c, <<ElasticSubnetSpec(sid)>>)
    \/ \E c \in Callers : InstallSubnetsBegin(c)
    \/ \E c \in Callers : SharedSteps(c)
    \/ \E c \in Callers : SubnetSteps(c)
    \/ \E c \in Callers : ChainSteps(c)
    \/ \E c \in Callers : OtherSteps(c)
    \/ PrimaryValidatorStarts
    \/ SubnetValidatorStarts
    \/ ChainLogAppears

Spec == Init /\ [][Next]_vars

\* ------------------------------------------------------------------------
\* SpecVMID: utils.VMID applied to two VM names
\* ------------------------------------------------------------------------
Bytes == {0, 1, 255}

Prefixes == UNION {[1..k -> Bytes] : k \in 0..MaxPrefix}

\* names of every length around the 32-byte limit: a short prefix followed
\* by a run of one byte
VMNames == {p \o Rep(b, k) : p \in Prefixes, b \in {0, 1},
                             k \in {0} \cup ((IDLen - 3)..(IDLen + 1))}

InitVMID ==
    /\ InitNetwork
    /\ vmIn \in VMNames \X VMNames
    /\ vmOut = <<>>
    /\ valIn = <<>>
    /\ valOut = <<>>
    /\ NoAux

ComputeVMID ==
    /\ vmOut = <<>>
    /\ vmOut' = <<VMID(vmIn[1]), VMID(vmIn[2])>>
    /\ UNCHANGED <<nodes, nextNodeID, chainVars, callVars, envVars, vmIn, valIn,
                   valOut, auxVars>>

NextVMID == ComputeVMID

SpecVMID == InitVMID /\ [][NextVMID]_vars

\* ========================================================================
\* Properties
\* ========================================================================

\* the successful transactions of one kind a call has handed to the wallet,
\* in the order of issue, and their IDs
TxsOf(c, kind) == SelectSeq(txlog, LAMBDA t : t.c = c /\ t.kind = kind /\ t.ok)

TxIDs(c, kind) == [k \in DOMAIN TxsOf(c, kind) |-> TxsOf(c, kind)[k].id]

\* a call that is between its entry (the lock taken) and its return
Running(c) == pc[c] \notin {"idle", "lock", "done"}

Returned(c, op) == pc[c] = "done" /\ req[c].op = op

\* ------------------------------------------------------------------------
\* C1
\* ------------------------------------------------------------------------
MutualExclusion ==
    /\ \A c, d \in Callers : Running(c) /\ Running(d) => c = d
    /\ \A c \in Callers : Running(c) => lock = c
    /\ lock # Free => lock \in Callers /\ Running(lock)

\* a call that waits for the lock keeps waiting or enters, and enters only
\* when the lock is free; it is never turned away
LockStep ==
    \A c \in Callers :
        pc[c] = "lock" =>
            \/ pc'[c] = "lock" /\ ret'[c] = ret[c]
            \/ pc'[c] = "begin" /\ lock = Free /\ lock' = c

\* C1: the five workflow entry points are serialised by the network lock.
\* At most one call is between entry and return, that call holds the lock
\* the whole time, and a call that arrives meanwhile waits (it is neither
\* rejected nor run concurrently) and enters only once the lock is free.
LockSerializes == [][MutualExclusion' /\ LockStep]_vars

\* one call runs while the other one waits for the lock
LockQueued ==
    \E c, d \in Callers : c # d /\ Running(c) /\ lock = c /\ pc[d] = "lock"

\* ------------------------------------------------------------------------
\* C2
\* ------------------------------------------------------------------------
\* C2: a node keeps its name and its nodeID for as long as it is in the
\* registry: no step of any workflow, the restarts of restartNodes
\* included, removes a node or changes its nodeID.
IdentityStable ==
    [][\A n \in DOMAIN nodes :
          n \in DOMAIN nodes' /\ nodes'[n].nodeID = nodes[n].nodeID]_vars

\* a node restartNodes has restarted, with a changed tracked-subnets flag
NodeRestarted ==
    \E n \in DOMAIN nodes : nodes[n].gen > 0 /\ nodes[n].procTrack # <<>>

\* ------------------------------------------------------------------------
\* C3
\* ------------------------------------------------------------------------
\* C3: when CreateSubnets returns success it returns one subnet ID per
\* SubnetSpec, in spec order (the i-th ID is the ID of the i-th create-subnet
\* transaction of the call), and every participant of spec i was seen as a
\* current validator of subnet i by the last pass of waitSubnetValidators.
SubnetsReturned ==
    \A c \in Callers :
        Returned(c, "CreateSubnets") /\ ret[c].ok =>
            /\ Len(ret[c].ids) = Len(req[c].subnetSpecs)
            /\ ret[c].ids = TxIDs(c, "createSubnet")
            /\ \A i \in DOMAIN req[c].subnetSpecs :
                 /\ Range(req[c].subnetSpecs[i].participants)
                        \subseteq Range(loc[c].specs[i].participants)
                 /\ \A p \in Range(loc[c].specs[i].participants) :
                        <<i, p>> \in loc[c].observed

\* CreateSubnets has returned two subnets, one of them with a participant
\* the call spawned
TwoSubnetsReturned ==
    \E c \in Callers :
        /\ Returned(c, "CreateSubnets") /\ ret[c].ok
        /\ Len(ret[c].ids) = 2
        /\ \E n \in Range(req[c].subnetSpecs[2].participants) :
               n \notin DOMAIN loc[c].nodes0

\* ------------------------------------------------------------------------
\* C4
\* ------------------------------------------------------------------------
\* C4: no create-chain transaction reaches the platform chain before
\* waitSubnetValidators has succeeded in the same call: before the restart
\* the transactions are only constructed.
ChainTxAfterBarrier ==
    \A k \in DOMAIN txlog :
        txlog[k].kind \in {"createChain", "issueChain"} => txlog[k].waited

\* ------------------------------------------------------------------------
\* C5
\* ------------------------------------------------------------------------
\* the indexes of the blockchain specs without a subnet ID, in input order
WithoutSubnetID(chainSpecs) ==
    SetToSortedSeq({i \in DOMAIN chainSpecs : chainSpecs[i].subnetID = NoID})

\* the positions of a call at which the fill-back is behind it
AfterFillBack ==
    {"waitprim", "addsub", "addsub_tx", "cbtxs", "bccfg", "restart",
     "restart_node", "reloadvms", "waitsub", "issue", "ready", "ready_log",
     "alias"}

\* C5: installCustomChains creates one subnet for each BlockchainSpec
\* without a subnet ID and none for a spec that carries one; the k-th spec
\* without a subnet ID gets the k-th created subnet ID, a spec that carries
\* an ID keeps it, and after the fill-back every spec has a subnet ID.
SubnetPerNewSpec ==
    \A c \in Callers :
        req[c].op = "CreateBlockchains" =>
            LET new == WithoutSubnetID(req[c].chainSpecs)
                created == TxIDs(c, "createSubnet")
            IN /\ Len(created) <= Len(new)
               /\ pc[c] \in AfterFillBack \/ (pc[c] = "done" /\ ret[c].ok) =>
                    /\ Len(created) = Len(new)
                    /\ Len(loc[c].chainSpecs) = Len(req[c].chainSpecs)
                    /\ \A k \in DOMAIN new :
                           loc[c].chainSpecs[new[k]].subnetID = created[k]
                    /\ \A i \in DOMAIN req[c].chainSpecs :
                         /\ loc[c].chainSpecs[i].subnetID # NoID
                         /\ req[c].chainSpecs[i].subnetID # NoID =>
                                loc[c].chainSpecs[i].subnetID
                                    = req[c].chainSpecs[i].subnetID

\* the fill-back has run for three specs, the second of which carries an ID
FilledAroundGivenID ==
    \E c \in Callers :
        /\ req[c].op = "CreateBlockchains" /\ pc[c] = "waitprim"
        /\ Len(req[c].chainSpecs) = 3
        /\ req[c].chainSpecs[2].subnetID # NoID
        /\ Len(TxIDs(c, "createSubnet")) = 2

\* ------------------------------------------------------------------------
\* C6
\* ------------------------------------------------------------------------
\* the participants of the subnet the call created for spec i
CreatedSubnetParticipants(c, i) ==
    LET new == WithoutSubnetID(req[c].chainSpecs)
        k == CHOOSE j \in DOMAIN new : new[j] = i
    IN Range(loc[c].specs[k].participants)

ChainConfigOf(spec, n) ==
    IF n \in DOMAIN spec.perNode THEN spec.perNode[n] ELSE spec.chainConfig

EmptyMeansAllNodes ==
    \A c \in Callers :
        req[c].op = "CreateSubnets" /\ pc[c] \in {"addsub", "addsub_tx"} =>
            \A i \in DOMAIN req[c].subnetSpecs :
                Len(req[c].subnetSpecs[i].participants) = 0 =>
                    Range(loc[c].specs[i].participants) = DOMAIN nodes

\* ------------------------------------------------------------------------
\* C8
\* ------------------------------------------------------------------------
\* C8: primary-validator addition is idempotent: an add-validator
\* transaction is issued only for a node that is not a primary validator
\* yet, and a later call issues none for a node an earlier call has added.
PrimaryAddedOnce ==
    \A j, k \in DOMAIN txlog :
        /\ txlog[j].kind = "addPrimary" /\ txlog[j].ok
        /\ txlog[k].kind = "addPrimary" /\ txlog[k].ok
        /\ txlog[j].node = txlog[k].node
        => j = k

\* ------------------------------------------------------------------------
\* C9
\* ------------------------------------------------------------------------
RECURSIVE StripZeros(_)
\* a name without its trailing zero bytes
StripZeros(name) ==
    IF name = <<>> THEN <<>>
    ELSE IF name[Len(name)] = 0 THEN StripZeros(SubSeq(name, 1, Len(name) - 1))
    ELSE name

\* the result is the name followed by zero bytes up to 32 bytes
PaddedName(name, r) ==
    /\ ~r.err
    /\ DOMAIN r.id = 1..32
    /\ \A i \in 1..Len(name) : r.id[i] = name[i]
    /\ \A i \in (Len(name) + 1)..32 : r.id[i] = 0

\* C9: VMID maps a name of at most 32 bytes to the name right-padded with
\* zero bytes to 32 bytes, and fails exactly for longer names; it is a
\* function of the name, and two names of at most 32 bytes that differ
\* otherwise than by trailing zero bytes get different IDs.
VMIDPadsAndRejects ==
    vmOut # <<>> =>
        /\ \A k \in {1, 2} :
             IF Len(vmIn[k]) <= 32 THEN PaddedName(vmIn[k], vmOut[k])
             ELSE vmOut[k].err
        /\ vmIn[1] = vmIn[2] => vmOut[1] = vmOut[2]
        /\ (/\ Len(vmIn[1]) <= 32 /\ Len(vmIn[2]) <= 32
            /\ StripZeros(vmIn[1]) # StripZeros(vmIn[2]))
           => vmOut[1].id # vmOut[2].id

\* VMID has mapped a name of exactly 32 bytes and has rejected one of 33
VMIDAtTheLimit ==
    /\ vmOut # <<>>
    /\ Len(vmIn[1]) = 32 /\ ~vmOut[1].err /\ vmOut[1].id = vmIn[1]
    /\ Len(vmIn[2]) = 33 /\ vmOut[2].err

\* ------------------------------------------------------------------------
\* C10
\* ------------------------------------------------------------------------
\* C10: CreateBlockchains with a VM name of more than 32 bytes returns the
\* VMID error with no side effect: at the return the registry is the one
\* the call found, and the call has issued no transaction.
VMNameErrorNoSideEffects ==
    [][\A c \in Callers :
          pc[c] # "done" /\ pc'[c] = "done" /\ ret'[c].err = "vm name" =>
              /\ nodes' = loc[c].nodes0
              /\ \A k \in DOMAIN txlog' : txlog'[k].c # c]_vars

\* ------------------------------------------------------------------------
\* C11
\* ------------------------------------------------------------------------
\* a blockchain spec that names a subnet and also carries a subnet spec
BothSet(spec) == spec.subnetID # NoID /\ spec.subnetSpec # <<>>

\* C11: a CreateBlockchains request with a BlockchainSpec that sets both a
\* subnet ID and a nested subnet spec is rejected with no side effect: the
\* call gets no further than its entry, returns an error, and has issued no
\* transaction.
BothSetRejected ==
    \A c \in Callers :
        /\ req[c].op = "CreateBlockchains"
        /\ \E i \in DOMAIN req[c].chainSpecs : BothSet(req[c].chainSpecs[i])
        /\ pc[c] \notin {"idle", "lock", "begin"}
        => /\ pc[c] = "done"
           /\ ~ret[c].ok
           /\ \A k \in DOMAIN txlog : txlog[k].c # c

\* ------------------------------------------------------------------------
\* SpecRestart: restartNodes called with every combination of its three
\* kinds of specs
\* ------------------------------------------------------------------------
\* the arguments of restartNodes: for each kind of spec, nil or a list
RestartArgs ==
    { [subnetIDs |-> IF "subnet" \in g THEN <<1>> ELSE <<>>,
       subnetSpecs |-> IF "subnet" \in g THEN <<SubnetSpec(<<1, 2>>, Nil)>> ELSE <<>>,
       valSpecs |-> IF "val" \in g
                    THEN <<PermissionlessValidatorSpec(2, 2),
                           PermissionlessValidatorSpec(2, 1)>>
                    ELSE <<>>,
       rmSpecs |-> IF "rm" \in g THEN <<RemoveSubnetValidatorSpec(1, <<1>>)>>
                   ELSE <<>>,
       given |-> g,
       cfgNodes |-> IF "subnet" \in g THEN cfg ELSE {}] :
      g \in SUBSET {"subnet", "val", "rm"}, cfg \in {{}, {2}} }

\* a workflow, holding the lock, calls ln.restartNodes
CallRestartNodes(c, rs) ==
    /\ pc[c] = "idle"
    /\ lock = Free
    /\ lock' = c
    /\ pc' = [pc EXCEPT ![c] = "restart"]
    /\ req' = [req EXCEPT ![c] = [NoReq EXCEPT !.op = "restartNodes"]]
    /\ loc' = [loc EXCEPT ![c] = [Loc0 EXCEPT !.rs = rs, !.nodes0 = nodes]]
    /\ UNCHANGED <<nodes, nextNodeID, chainVars, ret, envVars, vmVars>>

NextRestart ==
    \/ \E c \in Callers : \E rs \in RestartArgs : CallRestartNodes(c, rs)
    \/ \E c \in Callers : RestartNodes(c)
    \/ \E c \in Callers : RestartNode(c)

SpecRestart == Init /\ [][NextRestart]_vars

\* ------------------------------------------------------------------------
\* C12
\* ------------------------------------------------------------------------
\* C12: restartNodes called with more than one kind of spec returns an
\* error before it touches a node: the call leaves restartNodes with the
\* error and the registry as it found it, and never reaches the loop over
\* the nodes.
RestartArgsChecked ==
    [][\A c \in Callers :
          /\ (/\ pc[c] = "restart"
              /\ Cardinality(loc[c].rs.given) > 1
              /\ pc'[c] # "restart")
             => /\ pc'[c] = "done"
                /\ ret'[c].err = "specs"
                /\ nodes' = nodes
                /\ nodes = loc[c].nodes0
          /\ pc'[c] = "restart_node" => Cardinality(loc'[c].rs.given) <= 1]_vars

\* restartNodes has turned down a call with two kinds of specs
TwoKindsTurnedDown ==
    \E c \in Callers :
        /\ pc[c] = "done" /\ ret[c].err = "specs"
        /\ loc[c].rs.given = {"val", "rm"}

\* ------------------------------------------------------------------------
\* C13
\* ------------------------------------------------------------------------
Ascending(seq) == \A k \in 1..(Len(seq) - 1) : seq[k] < seq[k + 1]

\* C13: restartNodes restarts the nodes that need it one at a time in
\* ascending order of node name, restarts no further node after a failed
\* restart, and leaves its loop with success only through the fleet health
\* check that follows the last node, having restarted exactly the nodes
\* that needed it.
RollingRestart ==
    [][/\ \A c \in Callers : Ascending(loc'[c].restarted)
       /\ \A n \in DOMAIN nodes :
             nodes'[n].gen # nodes[n].gen =>
                /\ nodes'[n].gen = nodes[n].gen + 1
                /\ \A m \in DOMAIN nodes \ {n} : nodes'[m].gen = nodes[m].gen
                /\ \E c \in Callers :
                      /\ pc[c] = "restart_node" /\ lock = c
                      /\ loc'[c].restarted = Append(loc[c].restarted, n)
       /\ \A c \in Callers :
             pc[c] = "restart_node" /\ pc'[c] # "restart_node" =>
                /\ \A n \in DOMAIN nodes : nodes'[n].gen = nodes[n].gen
                /\ ~(pc'[c] = "done" /\ ~ret'[c].ok) =>
                      /\ loc[c].i > Len(loc[c].names)
                      /\ Range(loc[c].restarted)
                            = {n \in DOMAIN nodes :
                                  NeedsRestart(n, loc[c].rs) /\ ~nodes[n].paused}]_vars

\* restartNodes has restarted two nodes and has returned success
TwoNodesRestarted ==
    \E c \in Callers :
        /\ pc[c] = "done" /\ ret[c].ok /\ req[c].op = "restartNodes"
        /\ Len(loc[c].restarted) = 2

\* ------------------------------------------------------------------------
\* SpecWait: one CreateSubnets call, a network that may be stopped and a
\* caller context that may be cancelled at any time
\* ------------------------------------------------------------------------
\* the network is stopped: ln.onStopCh is closed
Stop ==
    /\ ~stopped
    /\ stopped' = TRUE
    /\ UNCHANGED <<nodes, nextNodeID, chainVars, callVars, ctxDone, logs, elastic,
                   vmVars>>

\* the context of a call in progress is cancelled
CtxCancel(c) ==
    /\ pc[c] \notin {"idle", "done"}
    /\ ~ctxDone[c]
    /\ ctxDone' = [ctxDone EXCEPT ![c] = TRUE]
    /\ UNCHANGED <<nodes, nextNodeID, chainVars, callVars, stopped, logs, elastic,
                   vmVars>>

\* the positions of a call inside a polling loop
WaitLoops == {"waitprim", "waitsub", "ready_log"}

NextWait ==
    \/ \E specs \in {<<SubnetSpec(<<>>, Nil)>>}
                     \cup {<<SubnetSpec(<<n>>, Nil)>> : n \in Spares} :
          CreateSubnets("c1", specs)
    \/ \E c \in Callers : InstallSubnetsBegin(c)
    \/ \E c \in Callers : SharedSteps(c)
    \/ \E c \in Callers : SubnetSteps(c)
    \/ PrimaryValidatorStarts
    \/ SubnetValidatorStarts
    \/ Stop
    \/ \E c \in Callers : CtxCancel(c)

SpecWait == Init /\ [][NextWait]_vars

\* a pass of a validator polling loop whose query succeeds
Poll(c) ==
    /\ WaitPrimaryValidators(c) \/ WaitSubnetValidators(c)
    /\ ret'[c].err # "query"

\* SpecWait with polling loops that keep polling: a pass that can leave the
\* loop is taken. Nothing is asked of the platform chain, of the stop
\* signal or of the caller.
SpecWaitFair == SpecWait /\ \A c \in Callers : WF_vars(Poll(c))

\* ------------------------------------------------------------------------
\* C14
\* ------------------------------------------------------------------------
\* C14: a polling loop looks at the stop signal before the caller context:
\* a call that leaves a polling loop while the stop signal is raised and
\* its context is cancelled returns the aborted error, not the context
\* error.
StopBeforeContext ==
    [][\A c \in Callers :
          /\ pc[c] \in WaitLoops /\ stopped /\ ctxDone[c]
          /\ pc'[c] = "done"
          => ret'[c].err # "ctx"]_vars

\* ------------------------------------------------------------------------
\* C15
\* ------------------------------------------------------------------------
\* C15: a wait for validator membership ends: a call that is in
\* waitPrimaryValidators or waitSubnetValidators leaves it, also when
\* the membership never comes, no stop signal is raised and the context is
\* never cancelled.
WaitsEnd ==
    \A c \in Callers :
        /\ (pc[c] = "waitprim") ~> (pc[c] # "waitprim")
        /\ (pc[c] = "waitsub") ~> (pc[c] # "waitsub")

\* ------------------------------------------------------------------------
\* C16
\* ------------------------------------------------------------------------
\* C16: a failed GetCurrentValidators query inside a validator polling
\* loop does not end the call: no call leaves waitPrimaryValidators or
\* waitSubnetValidators with the error of the query.
QueryFailureRetried ==
    [][\A c \in Callers :
          pc[c] \in {"waitprim", "waitsub"} /\ pc'[c] = "done"
          => ret'[c].err # "query"]_vars

\* ------------------------------------------------------------------------
\* SpecElastic: concurrent TransformSubnet calls on a network with two
\* subnets
\* ------------------------------------------------------------------------
\* an ID that is not in the map is answered with ids.Empty and no error
GetElasticSubnetID_NoError(subnetID) ==
    IF subnetID \in DOMAIN elastic
    THEN [id |-> elastic[subnetID], err |-> FALSE]
    ELSE [id |-> NoID, err |-> FALSE]

\* GetElasticSubnetID: the map entry, or ids.Empty and an error
GetElasticSubnetID(subnetID) ==
    IF subnetID \in DOMAIN elastic
    THEN [id |-> elastic[subnetID], err |-> FALSE]
    ELSE [id |-> NoID, err |-> TRUE]

\* the network after two subnets, 1 and 2, were created by earlier calls
InitElastic ==
    /\ nodes = [n \in InitNames |-> NodeRec(100 + n, BasePort + 2 * (n - 1))]
    /\ nextNodeID = 100 + Cardinality(Names) + 1
    /\ nextID = 3
    /\ primaryCur = {100 + n : n \in InitNames}
    /\ primaryPend = {}
    /\ subnets = {1, 2}
    /\ subCur = {}
    /\ subPend = {}
    /\ chains = {}
    /\ txlog = <<>>
    /\ lock = Free
    /\ pc = [c \in Callers |-> "idle"]
    /\ req = [c \in Callers |-> NoReq]
    /\ loc = [c \in Callers |-> Loc0]
    /\ ret = [c \in Callers |-> NoRet]
    /\ stopped = FALSE
    /\ ctxDone = [c \in Callers |-> FALSE]
    /\ logs = {}
    /\ elastic = EmptyMap
    /\ vmIn = <<>>
    /\ vmOut = <<>>
    /\ valIn = <<>>
    /\ valOut = <<>>
    /\ NoAux

\* the elastic subnet specs requests are drawn from: one or two specs, a
\* spec without a subnet ID among them
ElasticSpecInputs ==
    LET one == {ElasticSubnetSpec(sid) : sid \in {1, 2, NoID}}
    IN {<<a>> : a \in one} \cup {<<a, b>> : a \in one, b \in one}

NextElastic ==
    \/ \E c \in Callers : \E specs \in ElasticSpecInputs : TransformSubnet(c, specs)
    \/ \E c \in Callers : Lock(c)
    \/ \E c \in Callers : TransformBegin(c)
    \/ \E c \in Callers : TransformTx(c)

SpecElastic == InitElastic /\ [][NextElastic]_vars

\* every transaction a call has handed to a wallet, failed ones included
AllTxsOf(c) == SelectSeq(txlog, LAMBDA t : t.c = c)

\* ------------------------------------------------------------------------
\* C17
\* ------------------------------------------------------------------------
\* C17: the transactions of a TransformSubnet call come in the order
\* create-asset, export, import, transform-subnet, spec after spec in input
\* order, each only after the one before it has succeeded; and the map
\* entry of a subnet is written only with a transform-subnet transaction
\* of that subnet that has succeeded, as that transaction's ID.
ElasticOrder ==
    [][/\ \A c \in Callers :
             req'[c].op = "TransformSubnet" =>
                LET ts == SelectSeq(txlog', LAMBDA t : t.c = c)
                IN \A k \in DOMAIN ts :
                      /\ ts[k].kind = <<"createAsset", "export", "import",
                                        "transformSubnet">>[((k - 1) % 4) + 1]
                      /\ ((k - 1) \div 4) + 1 \in DOMAIN req'[c].elasticSpecs
                      /\ ts[k].subnet
                            = req'[c].elasticSpecs[((k - 1) \div 4) + 1].subnetID
                      /\ k < Len(ts) => ts[k].ok
       /\ elastic' # elastic =>
             /\ Len(txlog') = Len(txlog) + 1
             /\ LET t == txlog'[Len(txlog')]
                IN /\ t.kind = "transformSubnet" /\ t.ok
                   /\ elastic' = (t.subnet :> t.id) @@ elastic]_vars

\* a TransformSubnet call has transformed two subnets
TwoSubnetsTransformed ==
    \E c \in Callers :
        /\ Returned(c, "TransformSubnet") /\ ret[c].ok
        /\ Len(AllTxsOf(c)) = 8
        /\ req[c].elasticSpecs[1].subnetID # req[c].elasticSpecs[2].subnetID

\* ------------------------------------------------------------------------
\* C18
\* ------------------------------------------------------------------------
\* the transform-subnet transactions of a subnet that have succeeded
TransformsOf(subnetID) ==
    SelectSeq(txlog, LAMBDA t : t.kind = "transformSubnet" /\ t.ok
                                   /\ t.subnet = subnetID)

FailedTransformLeavesNothing ==
    \A c \in Callers :
        Returned(c, "TransformSubnet") /\ ~ret[c].ok =>
            \A sid \in DOMAIN elastic :
                \A k \in DOMAIN txlog :
                    txlog[k].c = c /\ txlog[k].ok
                        /\ txlog[k].kind = "transformSubnet"
                        /\ txlog[k].subnet = sid
                    => txlog[k].id # elastic[sid]

\* ------------------------------------------------------------------------
\* SpecTimes: the start and end time addPermissionlessValidators issues
\* ------------------------------------------------------------------------
\* addPermissionlessValidators: permissionlessValidationStartOffset, seconds
permissionlessValidationStartOffset == 30

\* 64-bit words are kept as four 16-bit limbs, least significant first; the
\* conversion int64 -> uint64 keeps the bits of the word
Limb == 65536

\* the word of a number below 2^31
Word(n) == <<n % Limb, (n \div Limb) % Limb, 0, 0>>

\* addition of int64 or uint64 values: the sum modulo 2^64
Add64(a, b) ==
    LET s1 == a[1] + b[1]
        s2 == a[2] + b[2] + (s1 \div Limb)
        s3 == a[3] + b[3] + (s2 \div Limb)
        s4 == a[4] + b[4] + (s3 \div Limb)
    IN <<s1 % Limb, s2 % Limb, s3 % Limb, s4 % Limb>>

\* time.Time{}.Unix() = -62135596800, as a 64-bit word (0xFFFFFFF1886E0900)
ZeroTime == <<2304, 34926, 65521, 65535>>

\* validatorSpec.StartTime.IsZero()
IsZero(t) == t = ZeroTime

\* startTime: the spec's start time, or time.Now() plus the offset
StartTime(spec, now) ==
    IF IsZero(spec.StartTime)
    THEN Add64(now, Word(permissionlessValidationStartOffset))
    ELSE spec.StartTime

\* endTime: the node's primary-network end time, or the spec's start time
\* plus the stake duration
EndTime(spec, primaryEnd) ==
    IF spec.StakeDuration = Word(0) THEN primaryEnd
    ELSE Add64(spec.StartTime, spec.StakeDuration)

\* start times a spec can carry (Unix seconds), the zero time among them
StartTimes == {ZeroTime, Word(1800000000), Word(1800000060), Word(2147483647)}
\* stake durations in seconds, none among them
StakeDurations == {Word(0), Word(3600), Word(1209600), Word(2147483647)}
\* readings of time.Now()
Nows == {Word(1793577600), Word(1793577630), Word(1799999970)}
\* end times of the node's primary-network validation
PrimaryEnds == {Word(1800000000), Word(1825113600), Word(2147483647)}

InitTimes ==
    /\ InitNetwork
    /\ vmIn = <<>>
    /\ vmOut = <<>>
    /\ valIn \in [spec : [StartTime : StartTimes, StakeDuration : StakeDurations],
                  now : Nows, primaryEnd : PrimaryEnds]
    /\ valOut = <<>>
    /\ NoAux

\* the times of the validator handed to IssueAddPermissionlessValidatorTx
ComputeTimes ==
    /\ valOut = <<>>
    /\ valOut' = [Start |-> StartTime(valIn.spec, valIn.now),
                  End |-> EndTime(valIn.spec, valIn.primaryEnd)]
    /\ UNCHANGED <<nodes, nextNodeID, chainVars, callVars, envVars, vmIn, vmOut,
                   valIn, auxVars>>

NextTimes == ComputeTimes

SpecTimes == InitTimes /\ [][NextTimes]_vars

\* ------------------------------------------------------------------------
\* C20
\* ------------------------------------------------------------------------
\* C20: the start time issued for a spec is the spec's start time when one
\* is given and now + 30 s otherwise; the end time issued is that start time
\* plus the stake duration when a stake duration is given and the node's
\* primary-network end time otherwise.
IssuedTimes ==
    valOut # <<>> =>
        /\ valOut.Start = IF valIn.spec.StartTime # ZeroTime
                          THEN valIn.spec.StartTime
                          ELSE Add64(valIn.now, Word(30))
        /\ valOut.End = IF valIn.spec.StakeDuration # Word(0)
                        THEN Add64(valOut.Start, valIn.spec.StakeDuration)
                        ELSE valIn.primaryEnd

\* ------------------------------------------------------------------------
\* SpecValidators: AddPermissionlessValidators and RemoveSubnetValidators on
\* a network with two subnets, where nodes are paused and resumed
\* ------------------------------------------------------------------------
\* the network after two subnets were created: subnet 1 is validated and
\* tracked by both nodes, subnet 2 by none
InitValidators ==
    /\ nodes = [n \in InitNames |->
                  [NodeRec(100 + n, BasePort + 2 * (n - 1))
                      EXCEPT !.track = <<1>>, !.procTrack = <<1>>]]
    /\ nextNodeID = 100 + Cardinality(Names) + 1
    /\ nextID = 3
    /\ primaryCur = {100 + n : n \in InitNames}
    /\ primaryPend = {}
    /\ subnets = {1, 2}
    /\ subCur = {<<1, 100 + n>> : n \in InitNames}
    /\ subPend = {}
    /\ chains = {}
    /\ txlog = <<>>
    /\ lock = Free
    /\ pc = [c \in Callers |-> "idle"]
    /\ req = [c \in Callers |-> NoReq]
    /\ loc = [c \in Callers |-> Loc0]
    /\ ret = [c \in Callers |-> NoRet]
    /\ stopped = FALSE
    /\ ctxDone = [c \in Callers |-> FALSE]
    /\ logs = {}
    /\ elastic = EmptyMap
    /\ vmIn = <<>>
    /\ vmOut = <<>>
    /\ valIn = <<>>
    /\ valOut = <<>>
    /\ NoAux

\* the validator specs requests are drawn from
ValidatorSpecInputs ==
    {<<PermissionlessValidatorSpec(2, n)>> : n \in InitNames \cup Spares}
    \cup {<<PermissionlessValidatorSpec(2, 1), PermissionlessValidatorSpec(2, 2)>>}

\* the remove specs requests are drawn from: a node named twice and a name
\* that is not in the registry among them
RemoveSpecInputs ==
    {<<RemoveSubnetValidatorSpec(1, <<n>>)>> : n \in InitNames \cup Spares}
    \cup {<<RemoveSubnetValidatorSpec(1, <<1, 1>>)>>,
          <<RemoveSubnetValidatorSpec(1, <<1, 2>>)>>}

NextValidators ==
    \/ \E c \in Callers : \E specs \in ValidatorSpecInputs :
          AddPermissionlessValidators(c, specs)
    \/ \E c \in Callers : \E specs \in RemoveSpecInputs :
          RemoveSubnetValidators(c, specs)
    \/ \E n \in InitNames : PauseNode(n)
    \/ \E n \in InitNames : ResumeNode(n)
    \/ \E c \in Callers : SharedSteps(c)
    \/ \E c \in Callers : AddPermissionlessBegin(c)
    \/ \E c \in Callers : AddPermissionlessValidatorTx(c)
    \/ \E c \in Callers : RemoveSubnetValidatorsBegin(c)
    \/ \E c \in Callers : RemoveSubnetValidatorsQuery(c)
    \/ \E c \in Callers : RemoveSubnetValidatorTx(c)
    \/ SubnetValidatorStarts

SpecValidators == InitValidators /\ [][NextValidators]_vars

\* the step with which call c returns from op
Returns(c, op) == pc[c] # "done" /\ pc'[c] = "done" /\ req[c].op = op

\* ------------------------------------------------------------------------
\* C21
\* ------------------------------------------------------------------------
\* C21: when AddPermissionlessValidators returns success, every node named
\* in a spec has the spec's subnet in its tracked-subnets list, was restarted
\* by the call, and its process runs with the updated list.
PermissionlessTracked ==
    [][\A c \in Callers :
          Returns(c, "AddPermissionlessValidators") /\ ret'[c].ok =>
             \A k \in DOMAIN req[c].valSpecs :
                LET v == req[c].valSpecs[k]
                IN /\ v.nodeName \in DOMAIN nodes'
                   /\ v.subnetID \in Range(nodes'[v.nodeName].track)
                   /\ v.nodeName \in Range(loc'[c].restarted)
                   /\ v.subnetID \in Range(nodes'[v.nodeName].procTrack)]_vars

\* ------------------------------------------------------------------------
\* C22
\* ------------------------------------------------------------------------
\* C22: a remove-subnet-validator transaction is handed to the wallet only
\* for a node of the registry that is a current validator of the subnet at
\* that moment; and when RemoveSubnetValidators returns an error, no node
\* has been restarted and no tracked-subnets list has changed since the call
\* began.
RemoveOnlyCurrent ==
    [][/\ (Len(txlog') = Len(txlog) + 1
           /\ txlog'[Len(txlog')].kind = "removeSubnetValidator") =>
             LET t == txlog'[Len(txlog')]
             IN /\ \E n \in DOMAIN nodes : nodes[n].nodeID = t.node
                /\ <<t.subnet, t.node>> \in subCur
       /\ \A c \in Callers :
             Returns(c, "RemoveSubnetValidators") /\ ~ret'[c].ok =>
                \A n \in DOMAIN loc[c].nodes0 :
                   /\ nodes'[n].gen = loc[c].nodes0[n].gen
                   /\ nodes'[n].track = loc[c].nodes0[n].track]_vars

\* ------------------------------------------------------------------------
\* SpecReady: one CreateBlockchains call on a network where nodes are paused
\* and resumed, the network is stopped and the caller's context ends
\* ------------------------------------------------------------------------
\* the blockchain specs of the call: a chain with an alias on the validated
\* subnet 1, chains on new subnets, and both in one request
ReadySpecInputs ==
    {<<BlockchainSpec(VMShort, 1, <<>>, Nil, EmptyMap, Nil, "a")>>,
     <<BlockchainSpec(VMShort, 1, <<>>, Nil, EmptyMap, Nil, Nil),
       NewChain(VMShort, <<SubnetSpec(<<2>>, Nil)>>)>>}
    \cup {<<NewChain(VMShort, <<SubnetSpec(<<n>>, Nil)>>)>> : n \in {1} \cup Spares}

NextReady ==
    \/ \E specs \in ReadySpecInputs : CreateBlockchains("c1", specs)
    \/ \E n \in InitNames : PauseNode(n)
    \/ \E n \in InitNames : ResumeNode(n)
    \/ \E c \in Callers : SharedSteps(c)
    \/ \E c \in Callers : SubnetSteps(c)
    \/ \E c \in Callers : ChainSteps(c)
    \/ PrimaryValidatorStarts
    \/ SubnetValidatorStarts
    \/ ChainLogAppears
    \/ Stop
    \/ CtxCancel("c1")

SpecReady == InitValidators /\ [][NextReady]_vars

\* ------------------------------------------------------------------------
\* C23
\* ------------------------------------------------------------------------
\* C23: no step of a workflow picks a paused node as its endpoint, calls
\* LoadVMs or AliasChain on one, polls the log directory of one or restarts
\* one; while a workflow runs, the record of a paused node stays in the
\* registry, paused, with the process it had.
PausedSkipped ==
    [][/\ \A c \in Callers :
             /\ (loc'[c].uri # loc[c].uri /\ loc'[c].uri # NoNode)
                   => ~nodes[loc'[c].uri].paused
             /\ \A x \in loc'[c].calls \ loc[c].calls : ~nodes[x[2]].paused
             /\ Len(loc'[c].restarted) > Len(loc[c].restarted)
                   => ~nodes[loc'[c].restarted[Len(loc'[c].restarted)]].paused
       /\ \A n \in DOMAIN nodes :
             nodes[n].paused /\ lock # Free =>
                /\ n \in DOMAIN nodes'
                /\ nodes'[n].paused
                /\ nodes'[n].gen = nodes[n].gen
                /\ nodes'[n].procTrack = nodes[n].procTrack]_vars

\* a call is about to return after it restarted a node, reloaded the VM
\* plugins, polled a log directory and registered an alias, all of it around
\* a paused node
WorkedAroundPaused ==
    \E c \in Callers : \E n \in DOMAIN nodes :
        /\ lock = c
        /\ nodes[n].paused
        /\ loc[c].restarted # <<>>
        /\ \E m \in DOMAIN nodes : <<"LoadVMs", m>> \in loc[c].calls
        /\ \E m \in DOMAIN nodes : <<"log", m>> \in loc[c].calls
        /\ pc[c] = "alias"

PortValues == {BasePort, MaxPort - 1, MaxPort}

InitPorts ==
    /\ \E ports \in [InitNames -> PortValues] : \E ps \in [InitNames -> BOOLEAN] :
          /\ \A n, m \in InitNames : n # m => ports[n] # ports[m]
          /\ nodes = [n \in InitNames |->
                        [NodeRec(100 + n, BasePort + 2 * (n - 1))
                            EXCEPT !.apiPort = ports[n], !.paused = ps[n]]]
    /\ nextNodeID = 100 + Cardinality(Names) + 1
    /\ nextID = 3
    /\ primaryCur = {100 + n : n \in InitNames}
    /\ primaryPend = {}
    /\ subnets = {1, 2}
    /\ subCur = {}
    /\ subPend = {}
    /\ chains = {}
    /\ txlog = <<>>
    /\ lock = Free
    /\ pc = [c \in Callers |-> "idle"]
    /\ req = [c \in Callers |-> NoReq]
    /\ loc = [c \in Callers |-> Loc0]
    /\ ret = [c \in Callers |-> NoRet]
    /\ stopped = FALSE
    /\ ctxDone = [c \in Callers |-> FALSE]
    /\ logs = {}
    /\ elastic = EmptyMap
    /\ vmIn = <<>>
    /\ vmOut = <<>>
    /\ valIn = <<>>
    /\ valOut = <<>>
    /\ NoAux

NextPorts ==
    \/ \E c \in Callers : TransformSubnet(c, <<ElasticSubnetSpec(1)>>)
    \/ \E c \in Callers : Lock(c)
    \/ \E c \in Callers : TransformBegin(c)
    \/ \E c \in Callers : TransformTx(c)

SpecPorts == InitPorts /\ [][NextPorts]_vars

\* ------------------------------------------------------------------------
\* C24
\* ------------------------------------------------------------------------
\* C24: when the registry holds a node that is not paused, the endpoint a
\* workflow gets from getNode is the node with the smallest API port among
\* the nodes that are not paused, whatever the ports are.
MinPortEndpoint ==
    [][\A c \in Callers :
          (pc[c] = "begin" /\ pc'[c] # "begin" /\ NotPaused # {}) =>
             /\ loc'[c].uri \in NotPaused
             /\ \A m \in NotPaused :
                   nodes[loc'[c].uri].apiPort <= nodes[m].apiPort]_vars

\* ------------------------------------------------------------------------
\* SpecClient: concurrent and repeated Close calls on one client
\* ------------------------------------------------------------------------
\* most Close calls of one goroutine
MaxCloses == 2

\* goroutines that call Close on the client
Closers == {"k1", "k2", "k3"}

\* the client New returns: the closed channel is open, closeOnce has not
\* run, the connection is up
NewClient ==
    [closed |-> 0, panicked |-> FALSE, closeOnce |-> FALSE, conn |-> "ready",
     pc |-> [k \in Closers |-> "idle"], done |-> [k \in Closers |-> 0]]

InitClient ==
    /\ InitNetwork
    /\ vmIn = <<>> /\ vmOut = <<>> /\ valIn = <<>> /\ valOut = <<>>
    /\ client = NewClient
    /\ stream = <<>> /\ peers = <<>> /\ ctl = <<>>

\* close(c.closed): a second close of a channel panics
CloseChan(cl) ==
    IF cl.closed = 0 THEN [cl EXCEPT !.closed = 1]
    ELSE [cl EXCEPT !.panicked = TRUE]

\* a Do that runs the function on every call
OnceDo_EveryCall(cl) == CloseChan(cl)

\* c.closeOnce.Do(func() { close(c.closed) }): the function runs on the
\* first call only
OnceDo(cl) ==
    IF cl.closeOnce THEN cl ELSE [CloseChan(cl) EXCEPT !.closeOnce = TRUE]

\* Close is called
CloseCall(k) ==
    /\ client.pc[k] = "idle"
    /\ client.done[k] < MaxCloses
    /\ client' = [client EXCEPT !.pc[k] = "once"]
    /\ UNCHANGED <<nodes, nextNodeID, chainVars, callVars, envVars, vmIn, vmOut,
                   valIn, valOut, stream, peers, ctl>>

\* Close: c.closeOnce.Do
CloseOnce(k) ==
    /\ client.pc[k] = "once"
    /\ client' = [OnceDo(client) EXCEPT !.pc[k] = "conn"]
    /\ UNCHANGED <<nodes, nextNodeID, chainVars, callVars, envVars, vmIn, vmOut,
                   valIn, valOut, stream, peers, ctl>>

\* Close: return c.conn.Close()
CloseConn(k) ==
    /\ client.pc[k] = "conn"
    /\ client' = [client EXCEPT !.conn = "shutdown", !.pc[k] = "idle",
                                !.done[k] = @ + 1]
    /\ UNCHANGED <<nodes, nextNodeID, chainVars, callVars, envVars, vmIn, vmOut,
                   valIn, valOut, stream, peers, ctl>>

NextClient ==
    \/ \E k \in Closers : CloseCall(k)
    \/ \E k \in Closers : CloseOnce(k)
    \/ \E k \in Closers : CloseConn(k)

SpecClient == InitClient /\ [][NextClient]_vars

\* ------------------------------------------------------------------------
\* C26
\* ------------------------------------------------------------------------
\* C26: however often and however concurrently Close is called, the closed
\* channel is closed once and never a second time (which would panic); once
\* a Close has returned the channel is closed and the connection shut down,
\* and a Close that follows leaves both as they are.
CloseIdempotent ==
    [][/\ client'.closed <= 1 /\ ~client'.panicked
       /\ (\E k \in Closers : client'.done[k] > 0)
             => client'.closed = 1 /\ client'.conn = "shutdown"
       /\ (\E k \in Closers : client.done[k] > 0)
             => /\ client'.closed = client.closed
                /\ client'.conn = client.conn
                /\ client'.closeOnce = client.closeOnce]_vars

\* Close has returned twice to one goroutine and once to another while a
\* third is between closeOnce.Do and conn.Close
ClosedAgainAndAgain ==
    \E k1, k2, k3 \in Closers :
        /\ client.done[k1] = 2 /\ client.done[k2] = 1
        /\ client.pc[k3] = "conn"
        /\ client.closed = 1

\* ------------------------------------------------------------------------
\* SpecStream: one StreamStatus subscription: the server stream, the receive
\* routine, the channel and the subscriber
\* ------------------------------------------------------------------------
\* frames the server pushes on the stream
MaxFrames == 3

\* StreamStatus: ch := make(chan *rpcpb.ClusterInfo, 1)
ChanCap == 1

\* the subscription StreamStatus returns: nothing received, the routine at
\* the head of its loop, the channel empty and open
NewStream ==
    [recvd |-> 0, pc |-> "select", msg |-> 0, ch |-> <<>>, chClosed |-> FALSE,
     got |-> <<>>, ctxDone |-> FALSE]

InitStream ==
    /\ InitNetwork
    /\ vmIn = <<>> /\ vmOut = <<>> /\ valIn = <<>> /\ valOut = <<>>
    /\ client = NewClient
    /\ stream = NewStream
    /\ peers = <<>> /\ ctl = <<>>

\* a channel send can proceed: the buffer has room
CanSend(st) == Len(st.ch) < ChanCap

\* a receive that leaves the frame in the channel
ChanRecv_Keep(st) == [st EXCEPT !.got = Append(@, Head(st.ch))]

\* <-ch by the subscriber: the oldest frame leaves the channel
ChanRecv(st) == [st EXCEPT !.got = Append(@, Head(st.ch)), !.ch = Tail(@)]

\* the select at the head of the loop: a done context or a closed client
\* ends the routine, otherwise the default case goes on to receive
StreamSelect ==
    /\ stream.pc = "select"
    /\ \/ /\ stream.ctxDone \/ client.closed > 0
          /\ stream' = [stream EXCEPT !.pc = "exit"]
       \/ /\ ~stream.ctxDone /\ client.closed = 0
          /\ stream' = [stream EXCEPT !.pc = "recv"]
    /\ UNCHANGED <<nodes, nextNodeID, chainVars, callVars, envVars, vmIn, vmOut,
                   valIn, valOut, client, peers, ctl>>

\* stream.RecvMsg(msg): the next frame of the server stream, or io.EOF or
\* another error, which ends the routine
StreamRecv ==
    /\ stream.pc = "recv"
    /\ \/ /\ stream.recvd < MaxFrames
          /\ stream' = [stream EXCEPT !.recvd = @ + 1, !.msg = stream.recvd + 1,
                                      !.pc = "send"]
       \/ stream' = [stream EXCEPT !.pc = "exit"]
    /\ UNCHANGED <<nodes, nextNodeID, chainVars, callVars, envVars, vmIn, vmOut,
                   valIn, valOut, client, peers, ctl>>

\* ch <- msg.GetClusterInfo(): the send waits for room in the channel
StreamSend ==
    /\ stream.pc = "send"
    /\ CanSend(stream)
    /\ stream' = [stream EXCEPT !.ch = Append(@, stream.msg), !.msg = 0,
                                !.pc = "select"]
    /\ UNCHANGED <<nodes, nextNodeID, chainVars, callVars, envVars, vmIn, vmOut,
                   valIn, valOut, client, peers, ctl>>

\* the deferred function of the routine: stream.CloseSend(), close(ch)
StreamExit ==
    /\ stream.pc = "exit"
    /\ stream' = [stream EXCEPT !.chClosed = TRUE, !.pc = "closed"]
    /\ UNCHANGED <<nodes, nextNodeID, chainVars, callVars, envVars, vmIn, vmOut,
                   valIn, valOut, client, peers, ctl>>

\* the subscriber reads a frame from the channel
SubscriberReads ==
    /\ stream.ch # <<>>
    /\ stream' = ChanRecv(stream)
    /\ UNCHANGED <<nodes, nextNodeID, chainVars, callVars, envVars, vmIn, vmOut,
                   valIn, valOut, client, peers, ctl>>

\* the context handed to StreamStatus is cancelled
StreamCtxCancel ==
    /\ ~stream.ctxDone
    /\ stream' = [stream EXCEPT !.ctxDone = TRUE]
    /\ UNCHANGED <<nodes, nextNodeID, chainVars, callVars, envVars, vmIn, vmOut,
                   valIn, valOut, client, peers, ctl>>

NextStream ==
    \/ StreamSelect
    \/ StreamRecv
    \/ StreamSend
    \/ StreamExit
    \/ SubscriberReads
    \/ StreamCtxCancel
    \/ \E k \in {"k1"} : CloseCall(k)
    \/ \E k \in {"k1"} : CloseOnce(k)
    \/ \E k \in {"k1"} : CloseConn(k)

SpecStream == InitStream /\ [][NextStream]_vars

\* ------------------------------------------------------------------------
\* C27
\* ------------------------------------------------------------------------
\* C27: the subscriber gets the frames in the order in which the routine
\* received them from the server stream: what it has read, followed by what
\* is in the channel and in the routine's hands, is the frames received so
\* far, each once, in order.
FramesInOrder ==
    LET held == IF stream.pc = "send" THEN <<stream.msg>> ELSE <<>>
        all == stream.got \o stream.ch \o held
    IN /\ all = [k \in 1..stream.recvd |-> k]
       /\ \A i, j \in DOMAIN stream.got : i < j => stream.got[i] < stream.got[j]

\* the subscriber has read every frame of the stream
AllFramesRead == stream.got = [k \in 1..MaxFrames |-> k]

\* ------------------------------------------------------------------------
\* C28
\* ------------------------------------------------------------------------
\* C28: the routine that feeds the subscriber's channel is never held up by
\* a subscriber that does not read: whenever it has a frame to send, the
\* send can proceed.
FeederNeverBlocked == stream.pc = "send" => CanSend(stream)

\* ------------------------------------------------------------------------
\* SpecPeer: AttachPeer on one node, the attached peer and the node's end of
\* the connection
\* ------------------------------------------------------------------------
\* messages sent through the attached peer
MaxSends == 3

\* the ops sent through the peer
SendOps == {"Chits", "Ping"}

\* the messages the node's end writes to complete the handshake
NodeHandshake == <<"Version", "PeerList">>

\* a node with no peer attached and its end of the connection untouched:
\* pc is the position of AttachPeer, queue the peer's outbound message
\* queue, wire what the node has read from the peer, nodeOut what the node
\* has still to write, toPeer what it has written and the peer not yet read
NewPeer ==
    [pc |-> "idle", tls |-> FALSE, started |-> FALSE, gotVersion |-> FALSE,
     ready |-> FALSE, queue |-> <<>>, wire |-> <<>>, nodeOut |-> NodeHandshake,
     toPeer |-> <<>>, attached |-> FALSE, sent |-> <<>>, sends |-> 0]

InitPeer ==
    /\ InitNetwork
    /\ vmIn = <<>> /\ vmOut = <<>> /\ valIn = <<>> /\ valOut = <<>>
    /\ client = <<>> /\ stream = <<>> /\ ctl = <<>>
    /\ peers = NewPeer

\* AwaitReady that returns at once
AwaitReady_NoWait(p) == TRUE

\* p.AwaitReady(cctx) returns nil: the peer has finished the handshake
AwaitReady(p) == p.ready

\* AttachPeer up to the connection: staking.NewTLSCert() and getConnFunc,
\* each of which may fail
AttachPeer ==
    /\ peers.pc = "idle"
    /\ \E ok \in BOOLEAN :
         peers' = [peers EXCEPT !.pc = IF ok THEN "upgrade" ELSE "failed"]
    /\ UNCHANGED <<nodes, nextNodeID, chainVars, callVars, envVars, vmIn, vmOut,
                   valIn, valOut, client, stream, ctl>>

\* clientUpgrader.Upgrade(conn) with the node's end upgrading its side: the
\* TLS handshake completes on both ends or AttachPeer returns the error
Upgrade ==
    /\ peers.pc = "upgrade"
    /\ \E ok \in BOOLEAN :
         peers' = [peers EXCEPT !.pc = IF ok THEN "start" ELSE "failed",
                                !.tls = ok]
    /\ UNCHANGED <<nodes, nextNodeID, chainVars, callVars, envVars, vmIn, vmOut,
                   valIn, valOut, client, stream, ctl>>

\* peer.Start: the peer runs and its first outbound message is its Version
PeerStart ==
    /\ peers.pc = "start"
    /\ peers' = [peers EXCEPT !.pc = "await", !.started = TRUE,
                              !.queue = <<"Version">>]
    /\ UNCHANGED <<nodes, nextNodeID, chainVars, callVars, envVars, vmIn, vmOut,
                   valIn, valOut, client, stream, ctl>>

\* err = p.AwaitReady(cctx): nil once the peer is ready, the context's error
\* when peerStartWaitTimeout passes first
AwaitReadyReturns ==
    /\ peers.pc = "await"
    /\ \/ /\ AwaitReady(peers)
          /\ peers' = [peers EXCEPT !.pc = "register"]
       \/ /\ ~peers.ready
          /\ peers' = [peers EXCEPT !.pc = "failed"]
    /\ UNCHANGED <<nodes, nextNodeID, chainVars, callVars, envVars, vmIn, vmOut,
                   valIn, valOut, client, stream, ctl>>

\* node.attachedPeers[p.ID().String()] = p; return p, nil
RegisterPeer ==
    /\ peers.pc = "register"
    /\ peers' = [peers EXCEPT !.pc = "done", !.attached = TRUE]
    /\ UNCHANGED <<nodes, nextNodeID, chainVars, callVars, envVars, vmIn, vmOut,
                   valIn, valOut, client, stream, ctl>>

\* the peer writes the head of its outbound queue to the connection and the
\* node's end reads it
PeerWrite ==
    /\ peers.started
    /\ peers.queue # <<>>
    /\ peers' = [peers EXCEPT !.wire = Append(@, Head(peers.queue)),
                              !.queue = Tail(@)]
    /\ UNCHANGED <<nodes, nextNodeID, chainVars, callVars, envVars, vmIn, vmOut,
                   valIn, valOut, client, stream, ctl>>

\* the node's end, after the TLS handshake, writes its Version and then its
\* PeerList
NodeSends ==
    /\ peers.tls
    /\ peers.nodeOut # <<>>
    /\ peers' = [peers EXCEPT !.toPeer = Append(@, Head(peers.nodeOut)),
                              !.nodeOut = Tail(@)]
    /\ UNCHANGED <<nodes, nextNodeID, chainVars, callVars, envVars, vmIn, vmOut,
                   valIn, valOut, client, stream, ctl>>

\* the peer reads a message of the node: the node's Version is answered
\* with the peer's PeerList, the node's PeerList completes the handshake
PeerHandles ==
    /\ peers.started
    /\ peers.toPeer # <<>>
    /\ LET m == Head(peers.toPeer)
       IN peers' = [peers EXCEPT
                      !.toPeer = Tail(@),
                      !.gotVersion = @ \/ m = "Version",
                      !.queue = IF m = "Version" THEN Append(@, "PeerList") ELSE @,
                      !.ready = @ \/ (m = "PeerList" /\ peers.gotVersion)]
    /\ UNCHANGED <<nodes, nextNodeID, chainVars, callVars, envVars, vmIn, vmOut,
                   valIn, valOut, client, stream, ctl>>

\* SendOutboundMessage, or p.Send on the peer AttachPeer returned: the peer
\* is looked up in attachedPeers and Send puts the message on the peer's
\* queue and returns true, or returns false and the message is dropped
SendOutboundMessage(op) ==
    /\ peers.attached
    /\ peers.sends < MaxSends
    /\ \E ok \in BOOLEAN :
         peers' = [peers EXCEPT
                     !.sends = @ + 1,
                     !.queue = IF ok THEN Append(@, op) ELSE @,
                     !.sent = IF ok THEN Append(@, op) ELSE @]
    /\ UNCHANGED <<nodes, nextNodeID, chainVars, callVars, envVars, vmIn, vmOut,
                   valIn, valOut, client, stream, ctl>>

NextPeer ==
    \/ AttachPeer
    \/ Upgrade
    \/ PeerStart
    \/ AwaitReadyReturns
    \/ RegisterPeer
    \/ PeerWrite
    \/ NodeSends
    \/ PeerHandles
    \/ \E op \in SendOps : SendOutboundMessage(op)

SpecPeer == InitPeer /\ [][NextPeer]_vars

\* ------------------------------------------------------------------------
\* C29
\* ------------------------------------------------------------------------
\* C29: a peer is in attachedPeers only after the TLS upgrade and the p2p
\* handshake have completed, and what the node reads from the peer is, in
\* this order, Version, PeerList and then the messages for which Send
\* returned true.
AttachedAfterHandshake ==
    /\ peers.attached => peers.tls /\ peers.ready
    /\ LET want == <<"Version", "PeerList">> \o peers.sent
       IN /\ Len(peers.wire) <= Len(want)
          /\ \A i \in DOMAIN peers.wire : peers.wire[i] = want[i]

\* the node has read Version, PeerList and a message sent through the peer
NodeReadSentMessage ==
    /\ peers.attached
    /\ peers.sent # <<>>
    /\ peers.wire = <<"Version", "PeerList">> \o peers.sent

\* ------------------------------------------------------------------------
\* SpecControl: the state machine of the control service
\* ------------------------------------------------------------------------
\* writer calls made on the service
MaxCalls == 3

\* the writer methods of ControlService
Writers ==
    {"Start", "Stop", "CreateBlockchains", "CreateSubnets", "TransformElasticSubnets",
     "AddPermissionlessValidator", "RemoveSubnetValidator", "AddNode", "RemoveNode",
     "RestartNode", "PauseNode", "ResumeNode", "SaveSnapshot", "LoadSnapshot",
     "RemoveSnapshot", "AttachPeer", "SendOutboundMessage"}

\* the writers that bring a cluster up
Openers == {"Start", "LoadSnapshot"}

\* the service with no cluster; hist is the calls answered so far, each with
\* the state before and after it and the answer
InitControl ==
    /\ InitNetwork
    /\ vmIn = <<>> /\ vmOut = <<>> /\ valIn = <<>> /\ valOut = <<>>
    /\ client = <<>> /\ stream = <<>> /\ peers = <<>>
    /\ ctl = [state |-> "Empty", hist |-> <<>>]

\* a service that takes every writer in every state
Accepted_Always(m, state) == TRUE

\* the precondition of a writer: Start and LoadSnapshot from Empty, every
\* other writer when Running
Accepted(m, state) ==
    IF m \in Openers THEN state = "Empty" ELSE state = "Running"

\* the state an accepted writer leaves
After(m, state) ==
    CASE m = "Start" -> "Provisioning"
      [] m = "LoadSnapshot" -> "Running"
      [] m = "Stop" -> "Empty"
      [] OTHER -> state

\* one writer call: rejected with failed-precondition and no change of
\* state, or accepted
CtlCall(m) ==
    /\ Len(ctl.hist) < MaxCalls
    /\ LET ok == Accepted(m, ctl.state)
           post == IF ok THEN After(m, ctl.state) ELSE ctl.state
       IN ctl' = [state |-> post,
                  hist |-> Append(ctl.hist,
                                  [m |-> m, pre |-> ctl.state, post |-> post,
                                   res |-> IF ok THEN "ok" ELSE "failed-precondition"])]
    /\ UNCHANGED <<nodes, nextNodeID, chainVars, callVars, envVars, vmIn, vmOut,
                   valIn, valOut, client, stream, peers>>

\* the cluster Start launched is up
StartDone ==
    /\ ctl.state = "Provisioning"
    /\ ctl' = [ctl EXCEPT !.state = "Running"]
    /\ UNCHANGED <<nodes, nextNodeID, chainVars, callVars, envVars, vmIn, vmOut,
                   valIn, valOut, client, stream, peers>>

NextControl ==
    \/ \E m \in Writers : CtlCall(m)
    \/ StartDone

SpecControl == InitControl /\ [][NextControl]_vars

\* ------------------------------------------------------------------------
\* C30
\* ------------------------------------------------------------------------
\* C30: the state of the service changes only Empty -> Provisioning by
\* Start, Provisioning -> Running, Empty -> Running by LoadSnapshot and
\* Running -> Empty by Stop; Start and LoadSnapshot are answered
\* failed-precondition unless the state is Empty, every other writer unless
\* it is Running, and a rejected call leaves the state as it was.
ControlStateMachine ==
    [][ LET called == Len(ctl'.hist) = Len(ctl.hist) + 1
            e == ctl'.hist[Len(ctl'.hist)]
        IN /\ ctl'.state # ctl.state =>
                \/ called /\ e.m = "Start" /\ ctl.state = "Empty"
                          /\ ctl'.state = "Provisioning"
                \/ ~called /\ ctl.state = "Provisioning" /\ ctl'.state = "Running"
                \/ called /\ e.m = "LoadSnapshot" /\ ctl.state = "Empty"
                          /\ ctl'.state = "Running"
                \/ called /\ e.m = "Stop" /\ ctl.state = "Running"
                          /\ ctl'.state = "Empty"
           /\ called =>
                /\ e.m \in Openers /\ ctl.state # "Empty" =>
                     e.res = "failed-precondition" /\ ctl'.state = ctl.state
                /\ e.m \notin Openers /\ ctl.state # "Running" =>
                     e.res = "failed-precondition" /\ ctl'.state = ctl.state
                /\ e.m \in Openers /\ ctl.state = "Empty" => e.res = "ok"
      ]_vars

\* a cluster was started and stopped, and a writer was then rejected
StoppedThenRejected ==
    \E i, j \in DOMAIN ctl.hist :
        /\ i < j
        /\ ctl.hist[i].m = "Stop" /\ ctl.hist[i].res = "ok"
        /\ ctl.hist[j].m \notin Openers
        /\ ctl.hist[j].res = "failed-precondition"

\* ------------------------------------------------------------------------
\* SpecAddNode: concurrent AddNode calls on a running cluster
\* ------------------------------------------------------------------------
\* the names AddNode is called with: two names outside the registry
AddNodeNames == {Cardinality(Names) + 1, Cardinality(Names) + 2}

\* the port slots of the allocator: one per node the registry can hold
PortSlots == {BasePort + 2 * k : k \in 0..(Cardinality(Names) + 2)}

\* the lowest port slot that no node of the registry holds
FreeSlot(ns) ==
    CHOOSE p \in PortSlots :
        /\ \A n \in DOMAIN ns : ns[n].apiPort # p
        /\ \A q \in PortSlots : (\A n \in DOMAIN ns : ns[n].apiPort # q) => p <= q

\* rpc AddNode(name): the request arrives and waits for the cluster lock
AddNode(c, name) ==
    /\ pc[c] = "idle"
    /\ pc' = [pc EXCEPT ![c] = "lock"]
    /\ req' = [req EXCEPT ![c] = [NoReq EXCEPT !.op = "AddNode", !.name = name]]
    /\ UNCHANGED <<nodes, nextNodeID, chainVars, lock, loc, ret, envVars, vmVars>>

\* under the lock: a name that is taken is turned down, otherwise the
\* ports of the new node are allocated
AddNodeAllocate(c) ==
    /\ pc[c] = "begin"
    /\ req[c].op = "AddNode"
    /\ IF req[c].name \in DOMAIN nodes
       THEN /\ Finish(c, Err("duplicate node name"))
            /\ UNCHANGED loc
       ELSE /\ loc' = [loc EXCEPT ![c].i = FreeSlot(nodes)]
            /\ Goto(c, "addnode")
    /\ UNCHANGED <<nodes, nextNodeID, chainVars, req, envVars, vmVars>>

\* the node is spawned on the allocated ports and entered in the registry
\* with a fresh identity, or the spawn fails and nothing is entered
AddNodeRegister(c) ==
    /\ pc[c] = "addnode"
    /\ \E ok \in BOOLEAN :
         IF ok
         THEN /\ nodes' = (req[c].name :> NodeRec(nextNodeID, loc[c].i)) @@ nodes
              /\ nextNodeID' = nextNodeID + 1
              /\ Finish(c, OK(<<>>))
         ELSE /\ Finish(c, Err("addNode"))
              /\ UNCHANGED <<nodes, nextNodeID>>
    /\ UNCHANGED <<chainVars, req, loc, envVars, vmVars>>

NextAddNode ==
    \/ \E c \in Callers, name \in AddNodeNames : AddNode(c, name)
    \/ \E c \in Callers : Lock(c)
    \/ \E c \in Callers : AddNodeAllocate(c)
    \/ \E c \in Callers : AddNodeRegister(c)
    \/ \E n \in InitNames : PauseNode(n)
    \/ \E n \in InitNames : ResumeNode(n)

SpecAddNode == Init /\ [][NextAddNode]_vars

Issues(c, kind) ==
    /\ Len(txlog') = Len(txlog) + 1
    /\ txlog'[Len(txlog')].c = c
    /\ txlog'[Len(txlog')].kind = kind

\* C32: when a CreateSubnets or CreateBlockchains workflow issues an
\* add-subnet-validator transaction, its waitPrimaryValidators has seen
\* every node of the registry among the current primary validators, and a
\* create-subnet transaction of the same workflow has succeeded for every
\* subnet it was asked to create.
SubnetValidatorsAfterPrimary ==
    [][ \A c \in Callers :
          Issues(c, "addSubnetValidator") =>
            /\ req[c].op \in {"CreateSubnets", "CreateBlockchains"}
            /\ loc[c].primary = DOMAIN nodes
            /\ Len(loc[c].subnetIDs) = Len(loc[c].specs)
            /\ \A i \in DOMAIN loc[c].subnetIDs :
                 \E k \in DOMAIN txlog :
                    /\ txlog[k].c = c /\ txlog[k].ok
                    /\ txlog[k].kind = "createSubnet"
                    /\ txlog[k].id = loc[c].subnetIDs[i]
      ]_vars

\* both workflows have issued add-subnet-validator transactions, one of
\* them for a node that the workflow itself made a primary validator
BothWorkflowsAddedValidators ==
    /\ \E k \in DOMAIN txlog :
          /\ txlog[k].kind = "addSubnetValidator" /\ txlog[k].ok
          /\ req[txlog[k].c].op = "CreateSubnets"
          /\ \E j \in 1..(k - 1) :
                /\ txlog[j].kind = "addPrimary" /\ txlog[j].ok
                /\ txlog[j].node = txlog[k].node
    /\ \E k \in DOMAIN txlog :
          /\ txlog[k].kind = "addSubnetValidator" /\ txlog[k].ok
          /\ req[txlog[k].c].op = "CreateBlockchains"

\* ------------------------------------------------------------------------
\* C33
\* ------------------------------------------------------------------------
\* the subnets the specs add for a node, and those they remove for it
AddedFor(name, rs) ==
    {w.subnetID : w \in {v \in Range(rs.valSpecs) : v.nodeName = name}}
      \cup {rs.subnetIDs[k] : k \in {i \in DOMAIN rs.subnetIDs :
                \E j \in DOMAIN rs.subnetSpecs[i].participants :
                    rs.subnetSpecs[i].participants[j] = name}}

RemovedFor(name, rs) ==
    {w.subnetID : w \in {r \in Range(rs.rmSpecs) :
                            \E j \in DOMAIN r.nodeNames : r.nodeNames[j] = name}}

\* the caller takes one iteration of the loop of restartNodes in this step
LoopStep(c) ==
    /\ pc[c] = "restart_node"
    /\ loc[c].i <= Len(loc[c].names)
    /\ pc'[c] # pc[c] \/ loc'[c] # loc[c]

OnExistingSubnets(chainSpecs) ==
    /\ chainSpecs # <<>>
    /\ \A k \in DOMAIN chainSpecs :
          /\ chainSpecs[k].subnetID \in subnets
          /\ chainSpecs[k].chainConfig = Nil
          /\ DOMAIN chainSpecs[k].perNode = {}
          /\ chainSpecs[k].upgrade = Nil

\* C34: while a CreateBlockchains call with such specs runs, no node is
\* restarted, no node's record changes (tracked-subnets flag, config
\* files, identity, ports) and the wallet is not reloaded with a new
\* endpoint.
PlainChainsLeaveNodes ==
    [][ \A c \in Callers :
          (/\ lock = c
           /\ req[c].op = "CreateBlockchains"
           /\ OnExistingSubnets(req[c].chainSpecs))
          => /\ nodes' = nodes
             /\ pc'[c] # "restart"
             /\ \A n \in DOMAIN nodes \cup {NoNode} : <<"reload", n>> \notin loc'[c].calls
             /\ pc[c] # "begin" => loc'[c].uri = loc[c].uri
      ]_vars

\* a CreateBlockchains call on an existing subnet has returned the chain ID
PlainChainCreated ==
    \E c \in Callers :
        /\ pc[c] = "done" /\ ret[c].ok
        /\ req[c].op = "CreateBlockchains"
        /\ OnExistingSubnets(req[c].chainSpecs)
        /\ Len(ret[c].ids) = 1

\* ------------------------------------------------------------------------
\* SpecParticipants: CreateSubnets calls whose participant lists name a
\* node twice
\* ------------------------------------------------------------------------
\* subnet specs with two participants, the same node or two nodes
ParticipantInputs ==
    { <<SubnetSpec(<<n, n>>, Nil)>> : n \in Names }
      \cup { <<SubnetSpec(<<1, 2>>, Nil)>> }

NextParticipants ==
    \/ \E c \in Callers : \E specs \in ParticipantInputs : CreateSubnets(c, specs)
    \/ \E c \in Callers : InstallSubnetsBegin(c)
    \/ \E c \in Callers : SharedSteps(c)
    \/ \E c \in Callers : SubnetSteps(c)
    \/ PrimaryValidatorStarts
    \/ SubnetValidatorStarts

SpecParticipants == Init /\ [][NextParticipants]_vars

\* ------------------------------------------------------------------------
\* C35
\* ------------------------------------------------------------------------
\* C35: a workflow issues an add-subnet-validator transaction only for a
\* node that does not validate the subnet and for which it has not issued
\* one for that subnet before, whatever the participant lists repeat.
OneValidatorTxPerPair ==
    [][ \A c \in Callers :
          Issues(c, "addSubnetValidator") =>
            LET t == txlog'[Len(txlog')]
            IN /\ <<t.subnet, t.node>> \notin subCur
               /\ \A k \in DOMAIN txlog :
                    ~(/\ txlog[k].c = c
                      /\ txlog[k].kind = "addSubnetValidator"
                      /\ txlog[k].subnet = t.subnet
                      /\ txlog[k].node = t.node)
      ]_vars

\* ------------------------------------------------------------------------
\* SpecRemoved: CreateBlockchains on a network from which nodes are removed
\* ------------------------------------------------------------------------
NextRemoved ==
    \/ \E specs \in ReadySpecInputs : CreateBlockchains("c1", specs)
    \/ \E n \in InitNames : RemoveNode(n)
    \/ \E c \in Callers : SharedSteps(c)
    \/ \E c \in Callers : SubnetSteps(c)
    \/ \E c \in Callers : ChainSteps(c)
    \/ PrimaryValidatorStarts
    \/ SubnetValidatorStarts
    \/ ChainLogAppears

SpecRemoved == InitValidators /\ [][NextRemoved]_vars

\* ------------------------------------------------------------------------
\* C36
\* ------------------------------------------------------------------------
\* the current validators of a subnet that are no node of the registry
Orphans(subnetID) ==
    {v \in SubnetValidators(subnetID) :
        \A n \in DOMAIN nodes : nodes[n].nodeID # v}

\* C36: getSubnetValidatorsNodenames returns an error exactly when a current
\* validator of the subnet is no node of the registry, and otherwise one
\* registry name per current validator; and a CreateBlockchains call that
\* names an existing subnet returns success only if every current validator
\* of that subnet is a node of the registry.
ValidatorsNamedOrError ==
    /\ [](\A sid \in subnets :
            LET q == GetSubnetValidatorsNodenames(sid)
            IN /\ q.err <=> Orphans(sid) # {}
               /\ ~q.err =>
                    /\ Len(q.names) = Cardinality(SubnetValidators(sid))
                    /\ \A i, j \in DOMAIN q.names : i # j => q.names[i] # q.names[j]
                    /\ \A i \in DOMAIN q.names :
                          /\ q.names[i] \in DOMAIN nodes
                          /\ nodes[q.names[i]].nodeID \in SubnetValidators(sid))
    /\ [][ \A c \in Callers :
             (Returns(c, "CreateBlockchains") /\ ret'[c].ok) =>
                \A k \in DOMAIN req[c].chainSpecs :
                   req[c].chainSpecs[k].subnetID \in subnets =>
                      Orphans(req[c].chainSpecs[k].subnetID) = {}
       ]_vars

\* a CreateBlockchains call on an existing subnet has failed on the
\* validators of the subnet, one of which was removed from the registry
FailedOnRemovedValidator ==
    \E c \in Callers :
        /\ pc[c] = "done" /\ ret[c].err = "validators"
        /\ req[c].op = "CreateBlockchains"
        /\ Orphans(1) # {}
        /\ DOMAIN nodes # {}

\* ------------------------------------------------------------------------
\* SpecElasticRead: TransformSubnet calls, specs with a missing or an
\* unparsable subnet ID among them, and GetElasticSubnetID calls
\* ------------------------------------------------------------------------
\* one or two specs; a subnet ID is 1, 2, missing or unparsable
ElasticIDInputs ==
    LET one == {ElasticSubnetSpec(sid) : sid \in {1, 2, NoID, BadID}}
    IN {<<a>> : a \in one} \cup {<<a, b>> : a \in one, b \in one}

\* GetElasticSubnetID is called: it takes no lock; the read of the map
\* begins
GetElasticSubnetIDCall(c, subnetID) ==
    /\ pc[c] = "idle"
    /\ pc' = [pc EXCEPT ![c] = "reading"]
    /\ req' = [req EXCEPT ![c] = [NoReq EXCEPT
                                    !.op = "GetElasticSubnetID",
                                    !.elasticSpecs = <<ElasticSubnetSpec(subnetID)>>]]
    /\ loc' = [loc EXCEPT ![c] = [Loc0 EXCEPT !.nodes0 = elastic]]
    /\ UNCHANGED <<nodes, nextNodeID, chainVars, lock, ret, envVars, vmVars>>

\* the read ends and GetElasticSubnetID returns. When the map was written
\* while it was read the outcome is not defined: the old or the new entry,
\* no entry, or the runtime's fatal error for a concurrent map access
GetElasticSubnetIDReturn(c) ==
    /\ pc[c] = "reading"
    /\ LET sid == req[c].elasticSpecs[1].subnetID
           q == GetElasticSubnetID(sid)
           clean == IF q.err THEN Err("not found") ELSE OK(<<q.id>>)
           old == loc[c].nodes0
       IN \E r \in IF elastic = old THEN {clean}
                  ELSE {clean, Err("not found"), Err("fatal")}
                         \cup (IF sid \in DOMAIN old THEN {OK(<<old[sid]>>)} ELSE {}) :
            ret' = [ret EXCEPT ![c] = r]
    /\ pc' = [pc EXCEPT ![c] = "done"]
    /\ UNCHANGED <<nodes, nextNodeID, chainVars, lock, req, loc, envVars, vmVars>>

NextElasticRead ==
    \/ \E c \in Callers : \E specs \in ElasticIDInputs : TransformSubnet(c, specs)
    \/ \E c \in Callers : Lock(c)
    \/ \E c \in Callers : TransformBegin(c)
    \/ \E c \in Callers : TransformTx(c)
    \/ \E c \in Callers : \E sid \in {1, 2} : GetElasticSubnetIDCall(c, sid)
    \/ \E c \in Callers : GetElasticSubnetIDReturn(c)

SpecElasticRead == InitElastic /\ [][NextElasticRead]_vars

\* ------------------------------------------------------------------------
\* C37
\* ------------------------------------------------------------------------
\* a request with a spec whose subnet ID is missing or does not parse
HasBadSubnetID(specs) ==
    \E k \in DOMAIN specs : specs[k].subnetID \in {NoID, BadID}

\* C37: a TransformSubnet call with such a spec, wherever in the list it
\* stands, goes from its start straight to an error: it hands no
\* transaction to a wallet and does not write subnetID2ElasticSubnetID.
ElasticSpecsValidatedFirst ==
    [][ \A c \in Callers :
          (/\ lock = c
           /\ req[c].op = "TransformSubnet"
           /\ HasBadSubnetID(req[c].elasticSpecs))
          => /\ pc[c] = "begin"
             /\ pc'[c] # pc[c] => pc'[c] = "done" /\ ~ret'[c].ok
             /\ txlog' = txlog
             /\ elastic' = elastic
             /\ \A k \in DOMAIN txlog : txlog[k].c # c
      ]_vars

\* a call whose second spec has an unparsable subnet ID has returned an
\* error with a healthy endpoint at hand
BadSecondSpecRejected ==
    \E c \in Callers :
        /\ pc[c] = "done" /\ ret[c].err = "subnet id"
        /\ req[c].op = "TransformSubnet"
        /\ Len(req[c].elasticSpecs) = 2
        /\ req[c].elasticSpecs[1].subnetID = 1
        /\ req[c].elasticSpecs[2].subnetID = BadID

\* ------------------------------------------------------------------------
\* C38
\* ------------------------------------------------------------------------
\* C38: no step writes subnetID2ElasticSubnetID while a GetElasticSubnetID
\* call is reading it.
NoReadDuringElasticWrite ==
    [][ elastic' # elastic => \A c \in Callers : pc[c] # "reading" ]_vars

\* ------------------------------------------------------------------------
\* C39
\* ------------------------------------------------------------------------
\* C39: with every node of the registry paused, a workflow does not end in
\* the use of the node getNode did not find: getClientURI, which calls
\* GetURL and GetAPIPort on what getNode returns, is not left through the
\* nil node (the result "nil node" of a call).
NoEndpointFromMissingNode ==
    (\A n \in DOMAIN nodes : nodes[n].paused) =>
       \A c \in Callers : ~(pc[c] = "done" /\ ret[c].err = "nil node")

\* ------------------------------------------------------------------------
\* SpecStreamFair: the subscription with a receive routine that takes
\* every step it can; the subscriber may stop reading at any time
\* ------------------------------------------------------------------------
SpecStreamFair ==
    /\ InitStream
    /\ [][NextStream]_vars
    /\ WF_vars(StreamSelect)
    /\ WF_vars(StreamRecv)
    /\ WF_vars(StreamSend)
    /\ WF_vars(StreamExit)

\* ------------------------------------------------------------------------
\* C40
\* ------------------------------------------------------------------------
\* C40: once the context of the subscription is cancelled or the client is
\* closed, the receive routine ends and the channel is closed, whether or
\* not the subscriber goes on reading.
StreamEnds ==
    (stream.ctxDone \/ client.closed > 0) ~> (stream.pc = "closed" /\ stream.chClosed)

====
